---- MODULE Spec2Model ----
(***************************************************************************)
(* Model of the timeline-to-video export core (packages/video-export):     *)
(* the encoder driver VideoExportEngine.export / processVideo / abort and  *)
(* the frame renderer's activation and render-order functions.             *)
(*                                                                         *)
(* Times of the timeline are counted in ticks of 1/TicksPerSec second;     *)
(* TicksPerSec is a power of two, so every such time and every sum or      *)
(* product of them the code forms is an exact IEEE-754 double.  The two    *)
(* quotients the driver forms from the frame rate (frame / fps and         *)
(* 1e6 / fps) are not exact, and are modelled bit for bit (FDiv, FMulInt,  *)
(* FFloor below).                                                          *)
(***************************************************************************)
EXTENDS Integers, Sequences, FiniteSets, TLC

VARIABLES
    settings,        \* ExportSettings: [fps, width, height, resQ] (resolution = resQ/4)
    durTicks,        \* timelineData.duration, in ticks
    hasAudio,        \* config.audio && hasAudioTracks()
    pc,              \* position of export() / processVideo()
    frame,           \* loop variable of processVideo
    controller,      \* this.abortController: "none" | "live" | "aborted"
    abortCalls,      \* number of abort() calls so far
    abortPc,         \* pc at which abort() first aborted the controller
    abortFrame,      \* Len(submitted) at that moment
    encState,        \* VideoEncoder.state
    encFailed,       \* the encoder reported an error
    queue,           \* encoder.encodeQueueSize
    inFlight,        \* frames the encoder has taken off its queue and not yet output
    dequeueDue,      \* a 'dequeue' event is scheduled and has not fired yet
    encodedChunks,   \* encodedChunks of processVideo
    submitted,       \* frames handed to encoder.encode, in order
    canvas,          \* `canvas` of the current loop iteration ("none" outside it)
    progress,        \* progress events dispatched, in order
    procAfterAbort,  \* 'processing' events dispatched after the controller aborted
    muxer,           \* Output: "none" | "started" | "finalized"
    saved,           \* number of saveBuffer calls
    terminal,        \* terminal events dispatched ('complete' / 'error'), in order
    failure,         \* the error export() caught ("none" while it has caught none)
    rTimeline,       \* timelineData.tracks handed to renderFrame
    rTime,           \* timestamp handed to renderFrame, in ticks
    rPc,             \* position of FrameRenderer.renderFrame
    rActive,         \* result of getActiveElementsAtTime
    rOrder,          \* elementsToRender
    rNext,           \* position of the dispatch loop in elementsToRender
    rDrawn,          \* elements dispatched to their renderer in this frame, in order
    rFrame,          \* frameNumber handed to renderFrame
    rFailed,         \* elements whose renderer failed in this frame
    rFailedBefore,   \* elements whose renderer failed in an earlier frame
    context,         \* FrameRenderer.context: alpha, blend mode, scale and save stack
    mediaCache,      \* MediaElementRenderer.mediaCache: [id, kind, currentTime] entries
    assets,          \* what loading and seeking each media id leads to
    loadCalls,       \* the loadVideo / loadImage calls so far: [id, kind, frame, ok]
    kReq,            \* requested settings.fps, in quarters of a frame per second
    kFps,            \* settings.fps after validateSettings, in quarters
    kFrame,          \* next frame to be encoded
    kLastKey,        \* index of the last frame encoded with keyFrame: true (-1: none)
    kStamps,         \* timestamp and duration of the frames encoded, in order
    aTracks,         \* timelineData.tracks handed to processAudio
    aDuration,       \* timelineData.duration, in ticks
    aChannels,       \* settings.numberOfChannels
    aPc,             \* position of AudioProcessor.processAudio
    aNext,           \* position of the mixing loops in the elements of audioTracks
    aOut,            \* audioBuffer: one sequence of samples per channel
    canvasKind,      \* class of FrameRenderer.canvas: "offscreen" | "html"
    processors,      \* RenderPipeline.processors
    plPc,            \* position of the pipeline part of renderFrame
    plPos,           \* position of the loop of processFrame in processors
    currentFrame,    \* currentFrame of processFrame: the frame and its surface
    handed,          \* the frames handed to processor.process, in order
    failed,          \* for each of them, whether process threw
    called,          \* the ids of the processors whose process was called, in order
    plOp,            \* the last addProcessor / removeProcessor / reorderProcessor call
    xTracks,         \* timelineTracks handed to VideoExporter.exportTimeline
    xProject,        \* projectSettings handed to it: [width, height, fps]
    xPc,             \* position of exportTimeline: "idle" | "engine" | "failed"
                     \* (validation) | "returned" | "thrown" (engine.export() settled)
    xErrors,         \* validationErrors (the kinds of error reported)
    xDuration,       \* timelineData.duration as transform computed it
    xCalls,          \* callbacks of options that exportTimeline itself has invoked
    mSettings,       \* settings of the MediaElementRenderer: [fps, width, height, resQ]
    mElement,        \* the media element handed to render, times in units
    mTimes,          \* the timestamps render is called with, in units, in order
    mPc,             \* "idle" | "run" | "load" | "seeking" | "done"
    mIndex,          \* position in mTimes of the call at hand, or of the next call
    mCached,         \* mediaCache holds the media of the element
    mCurrentTime,    \* currentTime of the cached video element as it reports it
    mLast            \* what the last call of render that has returned did

driverVars == <<settings, durTicks, hasAudio, pc, frame, controller, abortCalls,
                abortPc, abortFrame, encState, encFailed, queue, inFlight,
                dequeueDue, encodedChunks, submitted, canvas, progress, procAfterAbort, muxer, saved, terminal,
                failure>>

renderVars == <<rTimeline, rTime, rPc, rActive, rOrder, rNext, rDrawn, rFrame, rFailed,
                rFailedBefore, context, mediaCache, assets, loadCalls>>

keyVars == <<kReq, kFps, kFrame, kLastKey, kStamps>>

audioVars == <<aTracks, aDuration, aChannels, aPc, aNext, aOut>>

pipelineVars == <<canvasKind, processors, plPc, plPos, currentFrame, handed, failed,
                  called, plOp>>

exportVars == <<xTracks, xProject, xPc, xErrors, xDuration, xCalls>>

mediaVars == <<mSettings, mElement, mTimes, mPc, mIndex, mCached, mCurrentTime, mLast>>

\* everything but the driver's state, and everything but the frame renderer's
nonDriverVars == <<renderVars, keyVars, audioVars, pipelineVars, exportVars, mediaVars>>

nonRenderVars == <<driverVars, keyVars, audioVars, pipelineVars, exportVars, mediaVars>>

vars == <<driverVars, renderVars, keyVars, audioVars, pipelineVars, exportVars, mediaVars>>

(***************************************************************************)
(* Bounds of the model.                                                    *)
(***************************************************************************)
TicksPerSec == 2
MaxDurTicks == 2
MaxAbortCalls == 1
MaxTracks == 3
MaxElements == 3
MaxStart == 2
MaxElemDur == 3
MaxTrim == 1
MaxTime == 4

(***************************************************************************)
(* IEEE-754 double arithmetic on the operands the driver uses.  A positive *)
(* double is [m |-> 53 bits, most significant first, e |-> exponent of the *)
(* least significant bit]; zero has no bits.                               *)
(***************************************************************************)
MantBits == 53

RECURSIVE Pow2(_)
Pow2(n) == IF n = 0 THEN 1 ELSE 2 * Pow2(n - 1)

RECURSIVE BitsToInt(_, _)
BitsToInt(bits, acc) ==
    IF bits = <<>> THEN acc ELSE BitsToInt(Tail(bits), 2 * acc + Head(bits))

RECURSIVE IntToBits(_)
IntToBits(n) == IF n = 0 THEN <<>> ELSE Append(IntToBits(n \div 2), n % 2)

\* bits + 1 by carry propagation from position i down; an all-ones input wraps
RECURSIVE IncBitsAt(_, _)
IncBitsAt(bits, i) ==
    IF i = 0 THEN bits
    ELSE IF bits[i] = 0 THEN [bits EXCEPT ![i] = 1]
    ELSE IncBitsAt([bits EXCEPT ![i] = 0], i - 1)

\* round-to-nearest-even of a mantissa whose discarded tail is described by
\* half (the first discarded bit) and sticky (any later discarded bit set)
RoundMant(bits, e, half, sticky) ==
    LET up == half = 1 /\ (sticky \/ bits[Len(bits)] = 1) IN
    IF ~up THEN [m |-> bits, e |-> e]
    ELSE IF \A i \in 1..Len(bits) : bits[i] = 1
         THEN [m |-> <<1>> \o [i \in 1..(Len(bits) - 1) |-> 0], e |-> e + 1]
         ELSE [m |-> IncBitsAt(bits, Len(bits)), e |-> e]

\* largest s with b * 2^s <= a  (a >= b > 0)
RECURSIVE ShiftUp(_, _, _)
ShiftUp(a, b, s) == IF 2 * b <= a THEN ShiftUp(a, 2 * b, s + 1) ELSE s

\* smallest s with a * 2^s >= b  (0 < a < b)
RECURSIVE ShiftDown(_, _, _)
ShiftDown(a, b, s) == IF a >= b THEN s ELSE ShiftDown(2 * a, b, s + 1)

\* n further quotient bits of rem/den by binary long division
RECURSIVE DivBits(_, _, _, _)
DivBits(rem, den, n, acc) ==
    IF n = 0 THEN [bits |-> acc, rem |-> rem]
    ELSE LET r2 == 2 * rem IN
         IF r2 >= den THEN DivBits(r2 - den, den, n - 1, Append(acc, 1))
         ELSE DivBits(r2, den, n - 1, Append(acc, 0))

\* the double nearest to a / b, for integers a >= 0, b > 0
FDiv(a, b) ==
    IF a = 0 THEN [m |-> <<>>, e |-> 0]
    ELSE LET up  == a >= b
             s   == IF up THEN ShiftUp(a, b, 0) ELSE ShiftDown(a, b, 0)
             num == IF up THEN a ELSE a * Pow2(s)
             den == IF up THEN b * Pow2(s) ELSE b
             e0  == IF up THEN s ELSE 0 - s
             q   == DivBits(num - den, den, MantBits - 1, <<1>>)
             r2  == 2 * q.rem
         IN RoundMant(q.bits, e0 - (MantBits - 1),
                      IF r2 >= den THEN 1 ELSE 0, r2 # den /\ r2 # 0)

\* bits[1..i] * c + carry as a bit string prepended to acc
RECURSIVE MulBits(_, _, _, _, _)
MulBits(bits, i, c, carry, acc) ==
    IF i = 0 THEN IntToBits(carry) \o acc
    ELSE MulBits(bits, i - 1, c, (bits[i] * c + carry) \div 2,
                 <<(bits[i] * c + carry) % 2>> \o acc)

\* the double nearest to x * c, for a double x and an integer c > 0
FMulInt(x, c) ==
    IF x.m = <<>> THEN x
    ELSE LET p    == MulBits(x.m, Len(x.m), c, 0, <<>>)
             drop == Len(p) - MantBits
         IN IF drop <= 0 THEN [m |-> p \o [i \in 1..(0 - drop) |-> 0], e |-> x.e + drop]
            ELSE RoundMant(SubSeq(p, 1, MantBits), x.e + drop, p[MantBits + 1],
                           \E i \in (MantBits + 2)..Len(p) : p[i] = 1)

\* Math.floor of a non-negative double below 2^31
FFloor(x) ==
    IF x.m = <<>> THEN 0
    ELSE IF Len(x.m) + x.e <= 0 THEN 0
    ELSE BitsToInt(SubSeq(x.m, 1, Len(x.m) + x.e), 0)

\* the double nearest to the number whose binary digits are bits (most
\* significant first, leading zeros allowed), the last of them of exponent e
FNormal(bits, e) ==
    IF \A i \in 1..Len(bits) : bits[i] = 0 THEN [m |-> <<>>, e |-> 0]
    ELSE LET first == CHOOSE i \in 1..Len(bits) :
                          bits[i] = 1 /\ \A j \in 1..(i - 1) : bits[j] = 0
             sig   == SubSeq(bits, first, Len(bits))
             n     == Len(bits) - first + 1
         IN IF n <= MantBits
            THEN [m |-> sig \o [i \in 1..(MantBits - n) |-> 0], e |-> e - (MantBits - n)]
            ELSE RoundMant(SubSeq(sig, 1, MantBits), e + (n - MantBits),
                           sig[MantBits + 1], \E i \in (MantBits + 2)..n : sig[i] = 1)

\* x < y for doubles x, y >= 0
FLess(x, y) ==
    IF y.m = <<>> THEN FALSE
    ELSE IF x.m = <<>> THEN TRUE
    ELSE IF x.e # y.e THEN x.e < y.e
    ELSE \E i \in 1..MantBits : /\ x.m[i] < y.m[i]
                                /\ \A j \in 1..(i - 1) : x.m[j] = y.m[j]

\* the double nearest to x + y, for doubles x, y >= 0: the mantissas are
\* aligned at the lower exponent and added digit by digit
FAdd(x, y) ==
    IF x.m = <<>> THEN y
    ELSE IF y.m = <<>> THEN x
    ELSE LET hi == IF x.e >= y.e THEN x ELSE y
             lo == IF x.e >= y.e THEN y ELSE x
             d  == hi.e - lo.e
             a  == hi.m \o [i \in 1..d |-> 0]
             b  == [i \in 1..d |-> 0] \o lo.m
             Carry(i) == \E j \in (i + 1)..(MantBits + d) :
                            /\ a[j] + b[j] = 2
                            /\ \A k \in (i + 1)..(j - 1) : a[k] + b[k] = 1
         IN FNormal(<<IF Carry(0) THEN 1 ELSE 0>> \o
                    [i \in 1..(MantBits + d) |->
                        (a[i] + b[i] + (IF Carry(i) THEN 1 ELSE 0)) % 2], lo.e)

\* the double nearest to |x - y|, for doubles x, y >= 0: Math.abs(x - y), and
\* x - y where x >= y
FAbsSub(x, y) ==
    LET hi == IF FLess(x, y) THEN y ELSE x
        lo == IF FLess(x, y) THEN x ELSE y
    IN IF lo.m = <<>> THEN hi
       ELSE LET d  == hi.e - lo.e
                a  == hi.m \o [i \in 1..d |-> 0]
                b  == [i \in 1..d |-> 0] \o lo.m
                Borrow(i) == \E j \in (i + 1)..(MantBits + d) :
                                /\ a[j] < b[j]
                                /\ \A k \in (i + 1)..(j - 1) : a[k] = b[k]
            IN FNormal([i \in 1..(MantBits + d) |->
                           (a[i] + 2 - b[i] - (IF Borrow(i) THEN 1 ELSE 0)) % 2], lo.e)

(***************************************************************************)
(* Settings and timeline of a run.                                         *)
(***************************************************************************)
\* Math.round(n * resolution), resolution = resQ / 4
EffSize(n, resQ) == (2 * n * resQ + 4) \div 8

\* mutant of TotalFramesOf: the frame count rounded down
TotalFramesFloor(d, fps) == (d * fps) \div TicksPerSec

\* Math.ceil(timelineData.duration * settings.fps)
TotalFramesOf(d, fps) == (d * fps + TicksPerSec - 1) \div TicksPerSec

totalFrames == TotalFramesOf(durTicks, settings.fps)

gpuBatchSize == 5

\* frames the encoder works on at a time, and chunks left uncounted, at most
MaxInFlight == 5

MaxUncounted == 1

MicrosPerSec == 1000000

\* Math.floor((frame / fps) * 1e6)
FrameTimestamp(k, fps) == FFloor(FMulInt(FDiv(k, fps), MicrosPerSec))

\* Math.floor(1e6 / fps)
FrameDuration(fps) == FFloor(FDiv(MicrosPerSec, fps))

\* frame % (3 * fps) === 0 for fps = fpsQ / 4: both 3 * fps and the remainder are
\* exact in doubles
IsKeyFrameQ(k, fpsQ) == (4 * k) % (3 * fpsQ) = 0

\* the surface of FrameRenderer and of createFallbackCanvas
SurfaceSize(st) == [w |-> EffSize(st.width, st.resQ), h |-> EffSize(st.height, st.resQ)]

\* mutant of CanvasFor: a fallback surface that ignores the resolution multiplier
CanvasForUnscaled(outcome, st) ==
    IF outcome = "ok"
    THEN [kind |-> "rendered", w |-> EffSize(st.width, st.resQ),
          h |-> EffSize(st.height, st.resQ)]
    ELSE [kind |-> "fallback", w |-> st.width, h |-> st.height]

\* canvas = renderedFrame?.canvas || this.createFallbackCanvas(), or the catch branch
CanvasFor(outcome, st) ==
    IF outcome = "ok"
    THEN [kind |-> "rendered", w |-> SurfaceSize(st).w, h |-> SurfaceSize(st).h]
    ELSE [kind |-> "fallback", w |-> EffSize(st.width, st.resQ),
          h |-> EffSize(st.height, st.resQ)]

\* new VideoFrame(canvas, {timestamp, duration}) and the keyFrame option of encode
VideoFrameOf(k, st, cv) ==
    [k         |-> k,
     timestamp |-> FrameTimestamp(k, st.fps),
     duration  |-> FrameDuration(st.fps),
     keyFrame  |-> IsKeyFrameQ(k, 4 * st.fps),
     w         |-> cv.w,
     h         |-> cv.h]

(***************************************************************************)
(* Progress events.  The percentage (frame / totalFrames) * 100 is kept as *)
(* the fraction num/den; den = 0 is the NaN that 0/0 yields.               *)
(***************************************************************************)
ProgressEvent(stage, num, den, cur, tot) ==
    [stage |-> stage, num |-> num, den |-> den, currentFrame |-> cur, totalFrames |-> tot]

\* a VideoExportEngine after construction, export() not yet called
EngineIdle ==
    /\ pc = "idle"
    /\ frame = 0
    /\ controller = "none"
    /\ abortCalls = 0
    /\ abortPc = "none"
    /\ abortFrame = 0
    /\ encState = "none"
    /\ encFailed = FALSE
    /\ queue = 0
    /\ inFlight = 0
    /\ dequeueDue = FALSE
    /\ encodedChunks = 0
    /\ submitted = <<>>
    /\ canvas = "none"
    /\ progress = <<>>
    /\ procAfterAbort = 0
    /\ muxer = "none"
    /\ saved = 0
    /\ terminal = <<>>
    /\ failure = "none"

\* the engine as constructed: the ExportSettings of the run (fps within the
\* 1..120 and resolution within the 0.25..4 that validateSettings accepts) and
\* the length of its timeline; the higher frame rates run over the longest
\* timeline, without audio
DriverInit ==
    /\ settings \in { [fps |-> 1,  width |-> 64,   height |-> 64,   resQ |-> 4],
                       [fps |-> 3,  width |-> 66,   height |-> 70,   resQ |-> 1],
                       [fps |-> 8,  width |-> 64,   height |-> 64,   resQ |-> 4],
                       [fps |-> 12, width |-> 1920, height |-> 1080, resQ |-> 6] }
    /\ durTicks \in 0..MaxDurTicks
    /\ hasAudio \in BOOLEAN
    /\ settings.fps > TicksPerSec + 1 => (durTicks = MaxDurTicks /\ ~hasAudio)
    /\ EngineIdle

\* the catch block of export(): the 'error' progress event and the 'error' event;
\* err is the error caught: "config" (no WebCodecs, generateConfig), "aborted"
\* (the DOMException of the abort check), "encoder" (encode or flush on a closed
\* encoder), "audio" (processAudio) or "save" (finalize, saveBuffer)
Fail(err) ==
    /\ progress' = Append(progress, ProgressEvent("error", 0, 1, 0, 0))
    /\ terminal' = Append(terminal, "error")
    /\ failure' = err
    /\ pc' = "error"

\* the catch block of processVideo, then that of export(): encoder.close()
\* empties the encoder's queue, for which a 'dequeue' event is scheduled if it
\* held a frame, and ends its output
CatchVideo(err) ==
    /\ encState' = "closed"
    /\ queue' = 0
    /\ inFlight' = 0
    /\ dequeueDue' = (dequeueDue \/ queue > 0)
    /\ Fail(err)

\* export() up to its first await
StartExport ==
    /\ pc = "idle"
    /\ controller' = "live"
    /\ progress' = Append(progress, ProgressEvent("initializing", 0, 1, 0, 0))
    /\ pc' = "starting"
    /\ UNCHANGED <<settings, durTicks, hasAudio, frame, abortCalls, abortPc, abortFrame,
                   encState, encFailed, queue, inFlight, dequeueDue, encodedChunks, submitted, canvas,
                   procAfterAbort, muxer, saved, terminal, failure>>
    /\ UNCHANGED nonDriverVars

\* WebCodecs missing or generateConfig rejecting
ConfigFail ==
    /\ pc = "starting"
    /\ Fail("config")
    /\ UNCHANGED <<settings, durTicks, hasAudio, frame, controller, abortCalls, abortPc,
                   abortFrame, encState, encFailed, queue, inFlight, dequeueDue, encodedChunks,
                   submitted, canvas, procAfterAbort, muxer, saved>>
    /\ UNCHANGED nonDriverVars

\* output.start() resolved; processVideo creates and configures the encoder
BeginProcessing ==
    /\ pc = "starting"
    /\ muxer' = "started"
    /\ encState' = "configured"
    /\ frame' = 0
    /\ pc' = "loop"
    /\ UNCHANGED <<settings, durTicks, hasAudio, controller, abortCalls, abortPc,
                   abortFrame, encFailed, queue, inFlight, dequeueDue, encodedChunks, submitted, canvas,
                   progress, procAfterAbort, saved, terminal, failure>>
    /\ UNCHANGED nonDriverVars

\* mutant of LoopCheck: the driver never waits for the encoder queue to drain
LoopCheckNoBackpressure ==
    /\ pc = "loop"
    /\ canvas' = "none"
    /\ IF frame > totalFrames
       THEN /\ pc' = "flush"
            /\ UNCHANGED <<encState, queue, inFlight, dequeueDue, progress, terminal, failure>>
       ELSE IF controller = "aborted"
       THEN CatchVideo("aborted")
       ELSE /\ pc' = "rendering"
            /\ UNCHANGED <<encState, queue, inFlight, dequeueDue, progress, terminal, failure>>
    /\ UNCHANGED <<settings, durTicks, hasAudio, frame, controller, abortCalls, abortPc,
                   abortFrame, encFailed, encodedChunks, submitted,
                   procAfterAbort, muxer, saved>>
    /\ UNCHANGED nonDriverVars

\* head of one iteration: loop condition, abort check, queue check
LoopCheck ==
    /\ pc = "loop"
    /\ canvas' = "none"
    /\ IF frame > totalFrames
       THEN /\ pc' = "flush"
            /\ UNCHANGED <<encState, queue, inFlight, dequeueDue, progress, terminal, failure>>
       ELSE IF controller = "aborted"
       THEN CatchVideo("aborted")
       ELSE /\ pc' = IF queue > gpuBatchSize THEN "wait" ELSE "rendering"
            /\ UNCHANGED <<encState, queue, inFlight, dequeueDue, progress, terminal, failure>>
    /\ UNCHANGED <<settings, durTicks, hasAudio, frame, controller, abortCalls, abortPc,
                   abortFrame, encFailed, encodedChunks, submitted, procAfterAbort, muxer,
                   saved>>
    /\ UNCHANGED nonDriverVars

\* the encoder takes a frame off its queue to work on it: encodeQueueSize
\* decreases and a 'dequeue' event is scheduled, which fires in a later task,
\* once for all the frames taken until then
EncoderTake ==
    /\ encState = "configured"
    /\ queue > 0
    /\ inFlight < MaxInFlight
    /\ queue' = queue - 1
    /\ inFlight' = inFlight + 1
    /\ dequeueDue' = TRUE
    /\ UNCHANGED <<settings, durTicks, hasAudio, pc, frame, controller, abortCalls, abortPc,
                   abortFrame, encState, encFailed, encodedChunks, submitted, canvas,
                   progress, procAfterAbort, muxer, saved, terminal, failure>>
    /\ UNCHANGED nonDriverVars

\* mutant of EncoderDequeue: the 'dequeue' event does not reach the waiting driver
EncoderDequeueUnheard ==
    /\ dequeueDue
    /\ dequeueDue' = FALSE
    /\ UNCHANGED <<settings, durTicks, hasAudio, pc, frame, controller, abortCalls, abortPc,
                   abortFrame, encState, encFailed, queue, inFlight, encodedChunks,
                   submitted, canvas, progress, procAfterAbort, muxer, saved, terminal,
                   failure>>
    /\ UNCHANGED nonDriverVars

\* the scheduled 'dequeue' event fires: the listener of a waiting driver
\* resolves and the while loop tests encodeQueueSize again
EncoderDequeue ==
    /\ dequeueDue
    /\ dequeueDue' = FALSE
    /\ pc' = IF pc = "wait"
             THEN (IF queue > gpuBatchSize THEN "wait" ELSE "rendering")
             ELSE pc
    /\ UNCHANGED <<settings, durTicks, hasAudio, frame, controller, abortCalls, abortPc,
                   abortFrame, encState, encFailed, queue, inFlight, encodedChunks,
                   submitted, canvas, progress, procAfterAbort, muxer, saved, terminal,
                   failure>>
    /\ UNCHANGED nonDriverVars

\* the output callback of the encoder: the chunk is added to the video source
\* and counted, or (no metadata, or fromEncodedChunk / add throwing, which is
\* caught and logged) it is not counted
EncoderOutput(counted) ==
    /\ encState = "configured"
    /\ inFlight > 0
    /\ inFlight' = inFlight - 1
    /\ IF counted
       THEN encodedChunks' = encodedChunks + 1
       ELSE /\ Len(submitted) - queue - inFlight - encodedChunks < MaxUncounted
            /\ encodedChunks' = encodedChunks
    /\ UNCHANGED <<settings, durTicks, hasAudio, pc, frame, controller, abortCalls, abortPc,
                   abortFrame, encState, encFailed, queue, dequeueDue, submitted, canvas,
                   progress, procAfterAbort, muxer, saved, terminal, failure>>
    /\ UNCHANGED nonDriverVars

\* mutant of EncoderError: the error is logged and the encoder keeps running
EncoderErrorIgnored ==
    /\ encState = "configured"
    /\ pc \in {"loop", "wait", "rendering", "flush"}
    /\ encFailed' = TRUE
    /\ UNCHANGED <<settings, durTicks, hasAudio, pc, frame, controller, abortCalls, abortPc,
                   abortFrame, encState, queue, inFlight, dequeueDue, encodedChunks, submitted, canvas,
                   progress, procAfterAbort, muxer, saved, terminal, failure>>
    /\ UNCHANGED nonDriverVars

\* the encoder fails: it closes itself, which empties its queue (a 'dequeue'
\* event is scheduled if it held a frame) and ends its output
EncoderError ==
    /\ encState = "configured"
    /\ pc \in {"loop", "wait", "rendering", "flush"}
    /\ encState' = "closed"
    /\ encFailed' = TRUE
    /\ queue' = 0
    /\ inFlight' = 0
    /\ dequeueDue' = (dequeueDue \/ queue > 0)
    /\ UNCHANGED <<settings, durTicks, hasAudio, pc, frame, controller, abortCalls, abortPc,
                   abortFrame, encodedChunks, submitted, canvas, progress, procAfterAbort,
                   muxer, saved, terminal, failure>>
    /\ UNCHANGED nonDriverVars

\* mutant of EncodeFrame: the final frame is reported only if it is a tenth one
EncodeFrameTenthOnly(outcome) ==
    /\ pc = "rendering"
    /\ IF encState # "configured"
       THEN /\ CatchVideo("encoder")
            /\ UNCHANGED <<frame, submitted, canvas, procAfterAbort>>
       ELSE LET cv == CanvasFor(outcome, settings)
                report == frame % 10 = 0
            IN /\ submitted' = Append(submitted, VideoFrameOf(frame, settings, cv))
               /\ canvas' = cv.kind
               /\ queue' = queue + 1
               /\ progress' = IF report
                              THEN Append(progress, ProgressEvent("processing", frame * 100,
                                                            totalFrames, frame, totalFrames))
                              ELSE progress
               /\ procAfterAbort' = IF report /\ controller = "aborted"
                                    THEN procAfterAbort + 1 ELSE procAfterAbort
               /\ frame' = frame + 1
               /\ pc' = "loop"
               /\ UNCHANGED <<encState, inFlight, dequeueDue, terminal, failure>>
    /\ UNCHANGED <<settings, durTicks, hasAudio, controller, abortCalls, abortPc,
                   abortFrame, encFailed, encodedChunks, muxer, saved>>
    /\ UNCHANGED nonDriverVars

\* renderFrame settles; the frame is wrapped, encoded and reported; frame++
EncodeFrame(outcome) ==
    /\ pc = "rendering"
    /\ IF encState # "configured"
       THEN /\ CatchVideo("encoder")
            /\ UNCHANGED <<frame, submitted, canvas, procAfterAbort>>
       ELSE LET cv == CanvasFor(outcome, settings)
                report == frame % 10 = 0 \/ frame = totalFrames
            IN /\ submitted' = Append(submitted, VideoFrameOf(frame, settings, cv))
               /\ canvas' = cv.kind
               /\ queue' = queue + 1
               /\ progress' = IF report
                              THEN Append(progress, ProgressEvent("processing", frame * 100,
                                                            totalFrames, frame, totalFrames))
                              ELSE progress
               /\ procAfterAbort' = IF report /\ controller = "aborted"
                                    THEN procAfterAbort + 1 ELSE procAfterAbort
               /\ frame' = frame + 1
               /\ pc' = "loop"
               /\ UNCHANGED <<encState, inFlight, dequeueDue, terminal, failure>>
    /\ UNCHANGED <<settings, durTicks, hasAudio, controller, abortCalls, abortPc,
                   abortFrame, encFailed, encodedChunks, muxer, saved>>
    /\ UNCHANGED nonDriverVars

\* encoder.flush() settles, once every queued frame has been output;
\* encoder.close(); back in export()
FlushDone ==
    /\ pc = "flush"
    /\ IF encState # "configured"
       THEN CatchVideo("encoder")
       ELSE /\ queue = 0
            /\ inFlight = 0
            /\ encState' = "closed"
            /\ pc' = IF hasAudio THEN "audio" ELSE "finalize"
            /\ progress' = IF hasAudio THEN progress
                           ELSE Append(progress, ProgressEvent("finalizing", 100, 1,
                                                               totalFrames, totalFrames))
            /\ UNCHANGED <<queue, inFlight, dequeueDue, terminal, failure>>
    /\ UNCHANGED <<settings, durTicks, hasAudio, frame, controller, abortCalls, abortPc,
                   abortFrame, encFailed, encodedChunks, submitted, canvas,
                   procAfterAbort, muxer, saved>>
    /\ UNCHANGED nonDriverVars

\* processAudio settles
AudioDone(ok) ==
    /\ pc = "audio"
    /\ IF ok
       THEN /\ pc' = "finalize"
            /\ progress' = Append(progress, ProgressEvent("finalizing", 100, 1,
                                                          totalFrames, totalFrames))
            /\ UNCHANGED <<terminal, failure>>
       ELSE Fail("audio")
    /\ UNCHANGED <<settings, durTicks, hasAudio, frame, controller, abortCalls, abortPc,
                   abortFrame, encState, encFailed, queue, inFlight, dequeueDue, encodedChunks,
                   submitted, canvas, procAfterAbort, muxer, saved>>
    /\ UNCHANGED nonDriverVars

\* output.finalize() settles: it rejects ("reject"), or it resolves and the
\* target holds no buffer ("nobuffer"), or the buffer is handed to
\* stream.saveBuffer ("ok")
FinalizeDone(outcome) ==
    /\ pc = "finalize"
    /\ muxer' = IF outcome = "reject" THEN muxer ELSE "finalized"
    /\ IF outcome = "ok"
       THEN /\ saved' = saved + 1
            /\ pc' = "saving"
            /\ UNCHANGED <<progress, terminal, failure>>
       ELSE /\ Fail("save")
            /\ UNCHANGED saved
    /\ UNCHANGED <<settings, durTicks, hasAudio, frame, controller, abortCalls, abortPc,
                   abortFrame, encState, encFailed, queue, inFlight, dequeueDue, encodedChunks,
                   submitted, canvas, procAfterAbort>>
    /\ UNCHANGED nonDriverVars

\* saveBuffer settles
SaveDone(ok) ==
    /\ pc = "saving"
    /\ IF ok
       THEN /\ progress' = Append(progress, ProgressEvent("complete", 100, 1,
                                                          totalFrames, totalFrames))
            /\ terminal' = Append(terminal, "complete")
            /\ UNCHANGED failure
            /\ pc' = "complete"
       ELSE Fail("save")
    /\ UNCHANGED <<settings, durTicks, hasAudio, frame, controller, abortCalls, abortPc,
                   abortFrame, encState, encFailed, queue, inFlight, dequeueDue, encodedChunks, submitted,
                   canvas, procAfterAbort, muxer, saved>>
    /\ UNCHANGED nonDriverVars

\* abort()
Abort ==
    /\ abortCalls < MaxAbortCalls
    /\ abortCalls' = abortCalls + 1
    /\ controller' = IF controller = "live" THEN "aborted" ELSE controller
    /\ abortPc' = IF controller = "live" THEN pc ELSE abortPc
    /\ abortFrame' = IF controller = "live" THEN Len(submitted) ELSE abortFrame
    /\ UNCHANGED <<settings, durTicks, hasAudio, pc, frame, encState, encFailed, queue,
                   inFlight, dequeueDue, encodedChunks, submitted, canvas, progress,
                   procAfterAbort, muxer, saved, terminal, failure>>
    /\ UNCHANGED nonDriverVars

(***************************************************************************)
(* FrameRenderer.renderFrame: activation, render order and dispatch.       *)
(* Element times and the timestamp are in ticks.                           *)
(***************************************************************************)
MediaIds == {1, 2}

\* an optional field is the empty sequence when undefined, <<value>> otherwise
ExportElementOf(type, start, dur, ts, te, mediaId, mediaType, opacity, blendMode) ==
    [type |-> type, startTime |-> start, duration |-> dur, trimStart |-> ts,
     trimEnd |-> te, mediaId |-> mediaId, mediaType |-> mediaType,
     opacity |-> opacity, blendMode |-> blendMode]

\* a media element as transformMediaElement builds it: no opacity, no blend mode
MediaElementOf(start, dur, ts, te, mediaId, mediaType) ==
    ExportElementOf("media", start, dur, ts, te, mediaId, mediaType, <<>>, <<>>)

\* a text element as transformTextElement builds it (opacity in percent)
TextElementOf(start, dur, ts, te, opacity) ==
    ExportElementOf("text", start, dur, ts, te, 0, "none", <<opacity>>, <<>>)

\* an image element of media id 1 with the given times
ElementOf(start, dur, ts, te) == MediaElementOf(start, dur, ts, te, 1, "image")

TrackOf(type, muted, elements) == [type |-> type, muted |-> muted, elements |-> elements]

SeqsUpTo(S, n) == UNION { [1..k -> S] : k \in 0..n }

RECURSIVE ElementCount(_)
ElementCount(tracks) ==
    IF tracks = <<>> THEN 0 ELSE Len(Head(tracks).elements) + ElementCount(Tail(tracks))

\* one track holding one element of any shape the bounds allow, and MaxTracks
\* tracks sharing at most MaxElements clips of two shapes, one shown on [0, 2)
\* and a trimmed one shown on [2, 4)
TimelineSet ==
    LET TrackTypes == {"media", "text"}
        ElementSet ==
            { ElementOf(a, d, ts, te) :
                a \in 0..MaxStart, d \in 0..MaxElemDur, ts \in 0..MaxTrim,
                te \in 0..MaxTrim }
        ClipSet == { ElementOf(0, 2, 0, 0), ElementOf(2, 3, 1, 0) }
    IN { <<TrackOf(ty, mu, <<e>>)>> : ty \in TrackTypes, mu \in BOOLEAN, e \in ElementSet }
       \cup
       { tl \in [1..MaxTracks ->
                   { TrackOf(ty, FALSE, es) :
                       ty \in TrackTypes, es \in SeqsUpTo(ClipSet, MaxElements) }] :
           ElementCount(tl) <= MaxElements }

\* [ti, ei]: element ei of track ti
ElementAt(tl, r) == tl[r.ti].elements[r.ei]

\* the order in which the nested loops over tracks and elements visit the elements
RECURSIVE VisitOrder(_, _, _)
VisitOrder(tl, ti, ei) ==
    IF ti > Len(tl) THEN <<>>
    ELSE IF ei > Len(tl[ti].elements) THEN VisitOrder(tl, ti + 1, 1)
    ELSE <<[ti |-> ti, ei |-> ei]>> \o VisitOrder(tl, ti, ei + 1)

\* mutant of isElementActive: the end of the interval counted as active
isElementActiveInclusive(element, timestamp) ==
    LET elementEndTime ==
            element.startTime + element.duration - element.trimStart - element.trimEnd
    IN timestamp >= element.startTime /\ timestamp <= elementEndTime

\* BaseElementRenderer.isElementActive
isElementActive(element, timestamp) ==
    LET elementEndTime ==
            element.startTime + element.duration - element.trimStart - element.trimEnd
    IN timestamp >= element.startTime /\ timestamp < elementEndTime

\* FrameRenderer.getActiveElementsAtTime
getActiveElementsAtTime(tl, timestamp) ==
    LET Active(r) ==
            LET element == ElementAt(tl, r)
                elementEndTime == element.startTime + element.duration
                                    - element.trimStart - element.trimEnd
            IN timestamp >= element.startTime /\ timestamp < elementEndTime
    IN SelectSeq(VisitOrder(tl, 1, 1), Active)

\* mutant of RenderOrderCompare: track order alone, text tracks not promoted
RenderOrderCompareByIndex(tl, a, b) == a.ti - b.ti

\* the comparator of sortElementsByRenderOrder
RenderOrderCompare(tl, a, b) ==
    IF tl[a.ti].type = "text" /\ tl[b.ti].type # "text" THEN 1
    ELSE IF tl[b.ti].type = "text" /\ tl[a.ti].type # "text" THEN 0 - 1
    ELSE a.ti - b.ti

\* x placed behind the last entry that does not compare greater than it
RECURSIVE InsertSorted(_, _, _, _)
InsertSorted(tl, sorted, x, j) ==
    IF j = 0 \/ RenderOrderCompare(tl, sorted[j], x) <= 0
    THEN SubSeq(sorted, 1, j) \o <<x>> \o SubSeq(sorted, j + 1, Len(sorted))
    ELSE InsertSorted(tl, sorted, x, j - 1)

\* Array.prototype.sort (stable) with that comparator
RECURSIVE StableSort(_, _, _)
StableSort(tl, elements, sorted) ==
    IF elements = <<>> THEN sorted
    ELSE StableSort(tl, Tail(elements),
                    InsertSorted(tl, sorted, Head(elements), Len(sorted)))

sortElementsByRenderOrder(tl, elements) == StableSort(tl, elements, <<>>)

(***************************************************************************)
(* The drawing state of the 2D context and the element renderers.  alpha   *)
(* is in percent; scale counts the scale(resolution, resolution) calls in  *)
(* effect, so the transform is resolution^scale.                           *)
(***************************************************************************)
\* the context of a new canvas
NewContext == [alpha |-> 100, blend |-> "source-over", scale |-> 0, stack |-> <<>>]

\* context.restore(): nothing happens on an empty stack
Restore(c) ==
    IF c.stack = <<>> THEN c
    ELSE LET top == c.stack[Len(c.stack)]
         IN [alpha |-> top.alpha, blend |-> top.blend, scale |-> top.scale,
             stack |-> SubSeq(c.stack, 1, Len(c.stack) - 1)]

\* BaseElementRenderer.applyElementProperties: context.save(), globalAlpha,
\* globalCompositeOperation, scale
applyElementProperties(c, element) ==
    LET pushed  == [c EXCEPT !.stack = Append(@, [alpha |-> c.alpha, blend |-> c.blend,
                                                   scale |-> c.scale])]
        withA   == IF element.opacity # <<>>
                   THEN [pushed EXCEPT !.alpha = element.opacity[1]] ELSE pushed
        withB   == IF element.blendMode # <<>>
                   THEN [withA EXCEPT !.blend = element.blendMode[1]] ELSE withA
    IN [withB EXCEPT !.scale = @ + 1]

CachedMedia(cache, id) == CHOOSE m \in cache : m.id = id

\* MediaElementRenderer.loadMedia: the cached media, or null for an element with
\* neither file nor url, or the media loaded and cached now (a loaded video
\* stands at time 0), or null when the load fails or the element is neither
\* video nor image; calls holds the loadVideo or loadImage call made, if any
loadMedia(cache, element, status) ==
    IF \E m \in cache : m.id = element.mediaId
    THEN [media |-> CachedMedia(cache, element.mediaId).kind, cache |-> cache,
          calls |-> <<>>]
    ELSE IF status = "nosource"
    THEN [media |-> "null", cache |-> cache, calls |-> <<>>]
    ELSE IF element.mediaType \in {"video", "image"} /\ status # "noload"
    THEN [media |-> element.mediaType,
          cache |-> cache \cup {[id |-> element.mediaId, kind |-> element.mediaType,
                                  currentTime |-> 0]},
          calls |-> <<[id |-> element.mediaId, kind |-> element.mediaType, ok |-> TRUE]>>]
    ELSE IF element.mediaType \in {"video", "image"}
    THEN [media |-> "null", cache |-> cache,
          calls |-> <<[id |-> element.mediaId, kind |-> element.mediaType, ok |-> FALSE]>>]
    ELSE [media |-> "null", cache |-> cache, calls |-> <<>>]

\* MediaElementRenderer.render: [context, cache, failed]; a load that yields null
\* returns before the context is touched; a seek that times out or fails throws
\* between applyElementProperties and restoreContext and is swallowed.  seeks
\* tells whether seekVideo set video.currentTime and awaited the outcome, and
\* applied is the context it was awaited with; elementTime is
\* BaseElementRenderer.getElementTime(element, timestamp)
MediaRender(c, cache, element, timestamp, status) ==
    IF ~isElementActive(element, timestamp)
    THEN [context |-> c, cache |-> cache, failed |-> FALSE, calls |-> <<>>,
          seeks |-> FALSE, applied |-> c]
    ELSE LET loaded == loadMedia(cache, element, status) IN
         IF loaded.media = "null"
         THEN [context |-> c, cache |-> loaded.cache, failed |-> TRUE,
               calls |-> loaded.calls, seeks |-> FALSE, applied |-> c]
         ELSE LET applied     == applyElementProperties(c, element)
                  elementTime == timestamp - element.startTime + element.trimStart
                  video       == CachedMedia(loaded.cache, element.mediaId)
                  seeks       == loaded.media = "video" /\ video.currentTime # elementTime
                  sought      == IF seeks
                                 THEN { IF m.id = element.mediaId
                                        THEN [m EXCEPT !.currentTime = elementTime]
                                        ELSE m : m \in loaded.cache }
                                 ELSE loaded.cache
              IN IF seeks /\ status = "noseek"
                 THEN [context |-> applied, cache |-> sought, failed |-> TRUE,
                       calls |-> loaded.calls, seeks |-> seeks, applied |-> applied]
                 ELSE [context |-> Restore(applied), cache |-> sought, failed |-> FALSE,
                       calls |-> loaded.calls, seeks |-> seeks, applied |-> applied]

\* TextElementRenderer.render: setupTextStyle sets globalAlpha between
\* applyElementProperties and restoreContext
TextRender(c, cache, element, timestamp) ==
    IF ~isElementActive(element, timestamp)
    THEN [context |-> c, cache |-> cache, failed |-> FALSE, calls |-> <<>>,
          seeks |-> FALSE, applied |-> c]
    ELSE LET applied == applyElementProperties(c, element)
             styled  == [applied EXCEPT !.alpha = element.opacity[1]]
         IN [context |-> Restore(styled), cache |-> cache, failed |-> FALSE,
             calls |-> <<>>, seeks |-> FALSE, applied |-> c]

\* the switch on element.type in renderFrame
RenderElement(c, cache, element, timestamp, status) ==
    IF element.type = "media"
    THEN MediaRender(c, cache, element, timestamp, status[element.mediaId])
    ELSE TextRender(c, cache, element, timestamp)

RenderIdle ==
    /\ rTimeline = <<>>
    /\ rTime = 0
    /\ rPc = "idle"
    /\ rActive = <<>>
    /\ rOrder = <<>>
    /\ rNext = 1
    /\ rDrawn = <<>>
    /\ rFrame = 0
    /\ rFailed = {}
    /\ rFailedBefore = {}
    /\ context = NewContext
    /\ mediaCache = {}
    /\ assets = [id \in MediaIds |-> "ok"]
    /\ loadCalls = <<>>

RenderInit ==
    /\ rTimeline \in TimelineSet
    /\ rTime \in 0..MaxTime
    /\ rPc = "idle"
    /\ rActive = <<>>
    /\ rOrder = <<>>
    /\ rNext = 1
    /\ rDrawn = <<>>
    /\ rFrame = 0
    /\ rFailed = {}
    /\ rFailedBefore = {}
    /\ context = NewContext
    /\ mediaCache = {}
    /\ assets = [id \in MediaIds |-> "ok"]
    /\ loadCalls = <<>>

\* renderFrame(timelineData, timestamp, frameNumber) up to its dispatch loop: the
\* canvas is cleared, the active elements are collected and sorted
RenderFrameEnter(timestamp, frameNumber) ==
    /\ rTime' = timestamp
    /\ rFrame' = frameNumber
    /\ rActive' = getActiveElementsAtTime(rTimeline, timestamp)
    /\ rOrder' = sortElementsByRenderOrder(rTimeline,
                                           getActiveElementsAtTime(rTimeline, timestamp))
    /\ rNext' = 1
    /\ rDrawn' = <<>>
    /\ rFailed' = {}
    /\ rFailedBefore' = rFailedBefore \cup rFailed
    /\ rPc' = "elements"
    /\ UNCHANGED <<rTimeline, context, mediaCache, assets, loadCalls>>

\* renderFrame called for the timestamp and frame number at hand
RenderFrameStart ==
    /\ rPc = "idle"
    /\ RenderFrameEnter(rTime, rFrame)
    /\ UNCHANGED nonRenderVars

\* mutant of ElementDone: a failed element ends the dispatch loop of its frame
ElementDoneStopping(r, elementFailed) ==
    /\ rDrawn' = Append(rDrawn, r)
    /\ rFailed' = IF elementFailed THEN rFailed \cup {r} ELSE rFailed
    /\ rNext' = IF elementFailed THEN Len(rOrder) + 1 ELSE rNext + 1
    /\ rPc' = "elements"

\* the renderer of element r has returned, or thrown into the catch of the
\* dispatch loop: the loop goes on with the next element
ElementDone(r, elementFailed) ==
    /\ rDrawn' = Append(rDrawn, r)
    /\ rFailed' = IF elementFailed THEN rFailed \cup {r} ELSE rFailed
    /\ rNext' = rNext + 1
    /\ rPc' = "elements"

\* one iteration of the dispatch loop up to the first event it waits for: a
\* muted track's element is skipped; any other is handed to its renderer, which
\* returns at once (text, inactive or unloadable element, image in the cache,
\* video in the cache standing at the element time), or awaits the load of the
\* media, or sets video.currentTime under the saved and scaled context and
\* awaits the seek
DispatchElement ==
    /\ rPc = "elements"
    /\ rNext <= Len(rOrder)
    /\ LET r       == rOrder[rNext]
           element == ElementAt(rTimeline, r)
           result  == RenderElement(context, mediaCache, element, rTime, assets)
       IN IF rTimeline[r.ti].muted
          THEN /\ rNext' = rNext + 1
               /\ UNCHANGED <<rPc, rDrawn, rFailed, context, mediaCache, loadCalls>>
          ELSE IF result.calls # <<>>
          THEN /\ rPc' = "loading"
               /\ loadCalls' = loadCalls \o [i \in 1..Len(result.calls) |->
                                                result.calls[i] @@ [frame |-> rFrame]]
               /\ UNCHANGED <<rNext, rDrawn, rFailed, context, mediaCache>>
          ELSE IF result.seeks
          THEN /\ rPc' = "seeking"
               /\ context' = result.applied
               /\ mediaCache' = result.cache
               /\ UNCHANGED <<rNext, rDrawn, rFailed, loadCalls>>
          ELSE /\ ElementDone(r, result.failed)
               /\ context' = result.context
               /\ mediaCache' = result.cache
               /\ UNCHANGED loadCalls
    /\ UNCHANGED <<rTimeline, rTime, rActive, rOrder, rFrame, rFailedBefore, assets>>
    /\ UNCHANGED nonRenderVars

\* loadVideo or loadImage settles: a failed load ends the element; a loaded
\* media is cached, the context is saved and scaled, and an image is drawn and
\* the context restored, while a video that does not stand at the element time
\* is sought and awaited
LoadSettled ==
    /\ rPc = "loading"
    /\ LET r       == rOrder[rNext]
           element == ElementAt(rTimeline, r)
           result  == RenderElement(context, mediaCache, element, rTime, assets)
       IN IF result.seeks
          THEN /\ rPc' = "seeking"
               /\ context' = result.applied
               /\ mediaCache' = result.cache
               /\ UNCHANGED <<rNext, rDrawn, rFailed>>
          ELSE /\ ElementDone(r, result.failed)
               /\ context' = result.context
               /\ mediaCache' = result.cache
    /\ UNCHANGED <<rTimeline, rTime, rActive, rOrder, rFrame, rFailedBefore, assets,
                   loadCalls>>
    /\ UNCHANGED nonRenderVars

\* seekVideo settles: on 'seeked' the frame is drawn and the context restored;
\* on 'error' (also that of a video which dispose() has reset meanwhile) or
\* after the timeout render throws past restoreContext
SeekSettled ==
    /\ rPc = "seeking"
    /\ LET r          == rOrder[rNext]
           mediaId    == ElementAt(rTimeline, r).mediaId
           seekFailed == \/ assets[mediaId] = "noseek"
                         \/ ~(\E m \in mediaCache : m.id = mediaId)
       IN /\ context' = IF seekFailed THEN context ELSE Restore(context)
          /\ ElementDone(r, seekFailed)
    /\ UNCHANGED <<rTimeline, rTime, rActive, rOrder, rFrame, rFailedBefore, assets,
                   mediaCache, loadCalls>>
    /\ UNCHANGED nonRenderVars

\* FrameRenderer.dispose() on a quiescent pipeline: the processors are disposed
\* of and dropped and the media cache is emptied
Dispose ==
    /\ plPc = "idle"
    /\ mediaCache # {} \/ processors # <<>>
    /\ mediaCache' = {}
    /\ processors' = <<>>
    /\ plOp' = [op |-> "dispose", id |-> 0, index |-> 0, before |-> processors,
                disposed |-> [i \in 1..Len(processors) |-> i]]
    /\ UNCHANGED <<rTimeline, rTime, rPc, rActive, rOrder, rNext, rDrawn, rFrame, rFailed,
                   rFailedBefore, context, assets, loadCalls>>
    /\ UNCHANGED <<canvasKind, plPc, plPos, currentFrame, handed, failed, called>>
    /\ UNCHANGED <<driverVars, keyVars, audioVars, exportVars, mediaVars>>

\* the dispatch loop is over; the pipeline, which holds no processor, hands the
\* frame back and renderFrame returns it
FinishFrame ==
    /\ rPc = "elements"
    /\ rNext > Len(rOrder)
    /\ rPc' = "done"
    /\ UNCHANGED <<rTimeline, rTime, rActive, rOrder, rNext, rDrawn, rFrame, rFailed,
                   rFailedBefore, context, mediaCache, assets, loadCalls>>
    /\ UNCHANGED nonRenderVars

(***************************************************************************)
(* The keyframe decision of processVideo over the frame rates that         *)
(* validateSettings lets through.  Frame rates are in quarters.            *)
(***************************************************************************)
MaxFpsQ == 20
MaxKeyFrame == 41

Min(a, b) == IF a < b THEN a ELSE b

Max(a, b) == IF a > b THEN a ELSE b

\* fps: Math.max(1, Math.min(120, settings.fps || defaults.fps)), defaults.fps = 30
validateFps(fpsQ) == Max(4, Min(480, IF fpsQ = 0 THEN 120 ELSE fpsQ))

KeyIdle ==
    /\ kReq = 0
    /\ kFps = validateFps(0)
    /\ kFrame = 0
    /\ kLastKey = 0 - 1
    /\ kStamps = <<>>

\* one frame wrapped with its timestamp and duration and handed to
\* encoder.encode with its keyFrame option; the quotients frame / fps and
\* 1e6 / fps are those of 4 * frame and 4e6 by the frame rate in quarters
EncodeKeyed ==
    /\ kFrame <= MaxKeyFrame
    /\ kStamps' = Append(kStamps,
                         [timestamp |-> FrameTimestamp(4 * kFrame, kFps),
                          duration  |-> FFloor(FDiv(4 * MicrosPerSec, kFps))])
    /\ kLastKey' = IF IsKeyFrameQ(kFrame, kFps) THEN kFrame ELSE kLastKey
    /\ kFrame' = kFrame + 1
    /\ UNCHANGED <<kReq, kFps>>
    /\ UNCHANGED <<driverVars, renderVars, audioVars, pipelineVars, exportVars, mediaVars>>

(***************************************************************************)
(* AudioProcessor.processAudio: the mix of the audio-bearing elements.     *)
(* Samples are counted in quarters (FullScale is the sample value 1.0), so *)
(* every sample and every sum is an exact 32-bit float.  Element times are *)
(* in ticks and not negative.                                              *)
(***************************************************************************)
FullScale == 4
SampleRate == 3
MaxAudioDur == 3

\* decoded sources at the output rate, one sequence of samples per channel;
\* source 3 stands for bytes that decodeAudioData rejects
SourceData(src) ==
    CASE src = 1 -> << <<3, 6, 0 - 2, 1>> >>
      [] src = 2 -> << <<3, 3, 3>>, <<0 - 3, 0 - 3, 0 - 6>> >>
      [] OTHER   -> << >>

Decodes(src) == src \in {1, 2}

AudioElementOf(start, dur, ts, te, mediaType, src) ==
    [type |-> "media", mediaType |-> mediaType, startTime |-> start, duration |-> dur,
     trimStart |-> ts, trimEnd |-> te, src |-> src]

\* clips that overlap one another in the output
AudioClipSet ==
    { AudioElementOf(0, 4, 0, 0, "audio", 1), AudioElementOf(0, 4, 0, 0, "video", 2),
      AudioElementOf(1, 4, 1, 0, "video", 2), AudioElementOf(0, 1, 0, 1, "audio", 1) }

\* one track with one element of any media type and source, and two tracks
\* with a clip each
AudioTimelineSet ==
    LET AudioKinds == { <<"audio", 1>>, <<"video", 2>>, <<"audio", 3>>, <<"image", 1>> }
        AudioElementSet ==
            { AudioElementOf(a, d, ts, te, k[1], k[2]) :
                a \in {0, 2}, d \in {1, 4}, ts \in {0, 1}, te \in {0, 1},
                k \in AudioKinds }
    IN { <<TrackOf(ty, mu, <<e>>)>> :
           ty \in {"audio", "media"}, mu \in BOOLEAN, e \in AudioElementSet }
       \cup
       { <<TrackOf("audio", m1, <<e1>>), TrackOf("media", m2, <<e2>>)>> :
           m1 \in BOOLEAN, m2 \in BOOLEAN, e1 \in AudioClipSet, e2 \in AudioClipSet }

\* el.type === 'media' && (mediaType === 'audio' || mediaType === 'video')
IsAudioBearing(el) == el.type = "media" /\ el.mediaType \in {"audio", "video"}

\* the filter of processAudio
audioTracks(tracks) ==
    LET IsAudioTrack(track) ==
            \/ track.type = "audio"
            \/ \E i \in 1..Len(track.elements) : IsAudioBearing(track.elements[i])
    IN SelectSeq(tracks, IsAudioTrack)

\* mutant of BufferLength: the length rounded down
BufferLengthFloor(d) == (d * SampleRate) \div TicksPerSec

\* Math.ceil(duration * sampleRate)
BufferLength(d) == (d * SampleRate + TicksPerSec - 1) \div TicksPerSec

\* Math.floor(t * outputBuffer.sampleRate)
FloorSamples(t) == (t * SampleRate) \div TicksPerSec

\* mutant of ClampSample: only the upper bound is enforced
ClampSampleUpper(v) == IF v > FullScale THEN FullScale ELSE v

\* the two comparisons that follow each addition
ClampSample(v) ==
    IF v > FullScale THEN FullScale
    ELSE IF v < 0 - FullScale THEN 0 - FullScale
    ELSE v

\* mutant of SourceIndex: the source read from its first sample
SourceIndexUntrimmed(trimStartSamples, i) == i

\* sourceIndex = trimStartSamples + i
SourceIndex(trimStartSamples, i) == trimStartSamples + i

\* the inner loop of mixAudioElement over one channel (indices from 0 in the
\* code, from 1 in the sequences)
RECURSIVE MixChannel(_, _, _, _, _, _)
MixChannel(outputData, sourceData, startSample, trimStartSamples, sourceDuration, i) ==
    IF ~(i < sourceDuration /\ startSample + i < Len(outputData)) THEN outputData
    ELSE LET sourceIndex == SourceIndex(trimStartSamples, i) IN
         IF sourceIndex < Len(sourceData) /\ sourceIndex >= 0
         THEN MixChannel([outputData EXCEPT ![startSample + i + 1] =
                             ClampSample(@ + sourceData[sourceIndex + 1])],
                         sourceData, startSample, trimStartSamples, sourceDuration, i + 1)
         ELSE MixChannel(outputData, sourceData, startSample, trimStartSamples,
                         sourceDuration, i + 1)

\* mixAudioElement: a source that cannot be decoded leaves the buffer as it is
mixAudioElement(outputBuffer, element) ==
    IF ~Decodes(element.src) THEN outputBuffer
    ELSE LET processedBuffer  == SourceData(element.src)
             startSample      == FloorSamples(element.startTime)
             trimStartSamples == FloorSamples(element.trimStart)
             trimEndSamples   == FloorSamples(element.trimEnd)
             sourceDuration   == Len(processedBuffer[1]) - trimStartSamples - trimEndSamples
         IN [channel \in 1..Len(outputBuffer) |->
                IF channel <= Min(Len(outputBuffer), Len(processedBuffer))
                THEN MixChannel(outputBuffer[channel], processedBuffer[channel],
                                startSample, trimStartSamples, sourceDuration, 0)
                ELSE outputBuffer[channel]]

AudioIdle ==
    /\ aTracks = <<>>
    /\ aDuration = 0
    /\ aChannels = 1
    /\ aPc = "idle"
    /\ aNext = 1
    /\ aOut = <<>>

AudioInit ==
    /\ aTracks \in AudioTimelineSet
    /\ aDuration \in 1..MaxAudioDur
    /\ aChannels \in {1, 2}
    /\ aPc = "idle"
    /\ aNext = 1
    /\ aOut = <<>>

\* processAudio up to the mixing loops: the track filter and the silent buffer
AudioStart ==
    /\ aPc = "idle"
    /\ IF audioTracks(aTracks) = <<>>
       THEN /\ aPc' = "done"
            /\ aOut' = aOut
       ELSE /\ aPc' = "mixing"
            /\ aOut' = [c \in 1..aChannels |-> [j \in 1..BufferLength(aDuration) |-> 0]]
    /\ aNext' = 1
    /\ UNCHANGED <<aTracks, aDuration, aChannels>>
    /\ UNCHANGED <<driverVars, renderVars, keyVars, pipelineVars, exportVars, mediaVars>>

\* mutant of MixNext: the muted flag of the track is not looked at
MixNextMuted ==
    /\ aPc = "mixing"
    /\ aNext <= Len(VisitOrder(audioTracks(aTracks), 1, 1))
    /\ LET tl      == audioTracks(aTracks)
           r       == VisitOrder(tl, 1, 1)[aNext]
           element == ElementAt(tl, r)
       IN aOut' = IF ~IsAudioBearing(element) THEN aOut
                  ELSE mixAudioElement(aOut, element)
    /\ aNext' = aNext + 1
    /\ UNCHANGED <<aTracks, aDuration, aChannels, aPc>>
    /\ UNCHANGED <<driverVars, renderVars, keyVars, pipelineVars, exportVars, mediaVars>>

\* one element of the mixing loops: skipped on a muted track or when it bears no
\* audio, mixed (and awaited) otherwise
MixNext ==
    /\ aPc = "mixing"
    /\ aNext <= Len(VisitOrder(audioTracks(aTracks), 1, 1))
    /\ LET tl      == audioTracks(aTracks)
           r       == VisitOrder(tl, 1, 1)[aNext]
           element == ElementAt(tl, r)
       IN aOut' = IF tl[r.ti].muted \/ ~IsAudioBearing(element) THEN aOut
                  ELSE mixAudioElement(aOut, element)
    /\ aNext' = aNext + 1
    /\ UNCHANGED <<aTracks, aDuration, aChannels, aPc>>
    /\ UNCHANGED <<driverVars, renderVars, keyVars, pipelineVars, exportVars, mediaVars>>

\* encodeAudioBuffer settles
EncodeAudio(ok) ==
    /\ aPc = "mixing"
    /\ aNext > Len(VisitOrder(audioTracks(aTracks), 1, 1))
    /\ aPc' = IF ok THEN "done" ELSE "failed"
    /\ UNCHANGED <<aTracks, aDuration, aChannels, aNext, aOut>>
    /\ UNCHANGED <<driverVars, renderVars, keyVars, pipelineVars, exportVars, mediaVars>>

(***************************************************************************)
(* RenderPipeline.processFrame as renderFrame calls it.  A frame is        *)
(* [canvas, content, depth, filter]: the canvas it refers to, the effects  *)
(* drawn into that canvas, and the save depth and filter of its context.   *)
(***************************************************************************)
MaxProcessors == 3

\* BaseEffect subclasses with and without an effective parameter, a processor
\* whose process rejects at once, and one that returns a frame on a new canvas
ProcessorSet ==
    { [id |-> 1, kind |-> "effect",  active |-> TRUE],
      [id |-> 2, kind |-> "effect",  active |-> FALSE],
      [id |-> 3, kind |-> "reject",  active |-> TRUE],
      [id |-> 4, kind |-> "replace", active |-> TRUE] }

\* pipelineFrame as renderFrame builds it from this.canvas and this.context
CanvasFrame == [canvas |-> 0, content |-> <<>>, depth |-> 0, filter |-> "none"]

\* processor.process(currentFrame, settings, timestamp): whether it threw, and the
\* frame it returned (when it did not throw) or left behind (when it threw).
\* BlurEffect / BrightnessEffect / ColorFilterEffect.process runs up to the point
\* where it returns or throws: frame.canvas.cloneNode exists on an
\* HTMLCanvasElement and not on an OffscreenCanvas
Process(processor, fr, kind) ==
    CASE processor.kind = "effect"  ->
            IF ~processor.active THEN [threw |-> FALSE, frame |-> fr]
            ELSE IF kind = "offscreen"
            THEN [threw |-> TRUE,
                  frame |-> [fr EXCEPT !.depth = @ + 1, !.filter = "effect"]]
            ELSE [threw |-> FALSE,
                  frame |-> [fr EXCEPT !.content = Append(@, processor.id)]]
      [] processor.kind = "reject"  -> [threw |-> TRUE, frame |-> fr]
      [] processor.kind = "replace" ->
            [threw |-> FALSE,
             frame |-> [canvas |-> fr.canvas + 1,
                        content |-> Append(fr.content, processor.id),
                        depth |-> 0, filter |-> "none"]]

PipelineIdle ==
    /\ canvasKind = "offscreen"
    /\ processors = <<>>
    /\ plPc = "idle"
    /\ plPos = 1
    /\ currentFrame = CanvasFrame
    /\ handed = <<>>
    /\ failed = <<>>
    /\ called = <<>>
    /\ plOp = [op |-> "none", id |-> 0, index |-> 0, before |-> <<>>, disposed |-> <<>>]

PipelineInit ==
    /\ canvasKind \in {"offscreen", "html"}
    /\ processors \in SeqsUpTo(ProcessorSet, MaxProcessors)
    /\ plPc = "idle"
    /\ plPos = 1
    /\ currentFrame = CanvasFrame
    /\ handed = <<>>
    /\ failed = <<>>
    /\ called = <<>>
    /\ plOp = [op |-> "none", id |-> 0, index |-> 0, before |-> <<>>, disposed |-> <<>>]

\* renderFrame builds pipelineFrame and calls processFrame
ProcessFrameStart ==
    /\ plPc = "idle"
    /\ plPc' = "processing"
    /\ plPos' = 1
    /\ currentFrame' = CanvasFrame
    /\ UNCHANGED <<canvasKind, processors, handed, failed, called, plOp>>
    /\ UNCHANGED <<driverVars, renderVars, keyVars, audioVars, exportVars, mediaVars>>

\* one iteration of the loop of processFrame: the processor is awaited; when it
\* throws the warning is logged and currentFrame keeps referring to the frame
\* object it referred to
ProcessNext ==
    /\ plPc = "processing"
    /\ plPos <= Len(processors)
    /\ LET result == Process(processors[plPos], currentFrame, canvasKind)
       IN /\ currentFrame' = result.frame
          /\ failed' = Append(failed, result.threw)
    /\ handed' = Append(handed, currentFrame)
    /\ called' = Append(called, processors[plPos].id)
    /\ plPos' = plPos + 1
    /\ UNCHANGED <<canvasKind, processors, plPc, plOp>>
    /\ UNCHANGED <<driverVars, renderVars, keyVars, audioVars, exportVars, mediaVars>>

\* processFrame returns currentFrame and renderFrame returns it
ProcessFrameReturn ==
    /\ plPc = "processing"
    /\ plPos > Len(processors)
    /\ plPc' = "returned"
    /\ UNCHANGED <<canvasKind, processors, plPos, currentFrame, handed, failed, called,
                   plOp>>
    /\ UNCHANGED <<driverVars, renderVars, keyVars, audioVars, exportVars, mediaVars>>

\* addProcessor(processor) on a quiescent pipeline: this.processors.push
AddProcessor(processor) ==
    /\ plPc = "idle"
    /\ Len(processors) < MaxProcessors
    /\ processors' = Append(processors, processor)
    /\ plOp' = [op |-> "add", id |-> processor.id, index |-> 0, before |-> processors,
                disposed |-> <<>>]
    /\ UNCHANGED <<canvasKind, plPc, plPos, currentFrame, handed, failed, called>>
    /\ UNCHANGED <<driverVars, renderVars, keyVars, audioVars, exportVars, mediaVars>>

\* mutant of RemoveProcessor: the last processor with the id is the one removed
RemoveLastProcessor(id) ==
    /\ plPc = "idle"
    /\ LET found == { i \in 1..Len(processors) : processors[i].id = id }
           index == IF found = {} THEN 0 ELSE CHOOSE i \in found : \A j \in found : j <= i
       IN /\ processors' = IF index = 0 THEN processors
                           ELSE SubSeq(processors, 1, index - 1)
                                  \o SubSeq(processors, index + 1, Len(processors))
          /\ plOp' = [op |-> "remove", id |-> id, index |-> 0, before |-> processors,
                      disposed |-> IF index = 0 THEN <<>> ELSE <<index>>]
    /\ UNCHANGED <<canvasKind, plPc, plPos, currentFrame, handed, failed, called>>
    /\ UNCHANGED <<driverVars, renderVars, keyVars, audioVars, exportVars, mediaVars>>

\* removeProcessor(id) on a quiescent pipeline: findIndex, dispose of the
\* processor found and splice(index, 1); index counts from 1 here and is 0 when
\* findIndex yields -1; disposed holds the position of the processor disposed of
RemoveProcessor(id) ==
    /\ plPc = "idle"
    /\ LET found == { i \in 1..Len(processors) : processors[i].id = id }
           index == IF found = {} THEN 0 ELSE CHOOSE i \in found : \A j \in found : i <= j
       IN /\ processors' = IF index = 0 THEN processors
                           ELSE SubSeq(processors, 1, index - 1)
                                  \o SubSeq(processors, index + 1, Len(processors))
          /\ plOp' = [op |-> "remove", id |-> id, index |-> 0, before |-> processors,
                      disposed |-> IF index = 0 THEN <<>> ELSE <<index>>]
    /\ UNCHANGED <<canvasKind, plPc, plPos, currentFrame, handed, failed, called>>
    /\ UNCHANGED <<driverVars, renderVars, keyVars, audioVars, exportVars, mediaVars>>

\* reorderProcessor(id, newIndex) on a quiescent pipeline; newIndex counts from 0
\* as in the source: nothing happens when the id is unknown or newIndex is
\* outside 0 .. length - 1, otherwise splice(currentIndex, 1) and
\* splice(newIndex, 0, processor)
ReorderProcessor(id, newIndex) ==
    /\ plPc = "idle"
    /\ LET found        == { i \in 1..Len(processors) : processors[i].id = id }
           currentIndex == IF found = {} THEN 0
                           ELSE CHOOSE i \in found : \A j \in found : i <= j
           without      == SubSeq(processors, 1, currentIndex - 1)
                             \o SubSeq(processors, currentIndex + 1, Len(processors))
       IN /\ processors' =
                IF currentIndex = 0 \/ newIndex < 0 \/ newIndex >= Len(processors)
                THEN processors
                ELSE SubSeq(without, 1, newIndex) \o <<processors[currentIndex]>>
                       \o SubSeq(without, newIndex + 1, Len(without))
          /\ plOp' = [op |-> "reorder", id |-> id, index |-> newIndex,
                      before |-> processors, disposed |-> <<>>]
    /\ UNCHANGED <<canvasKind, plPc, plPos, currentFrame, handed, failed, called>>
    /\ UNCHANGED <<driverVars, renderVars, keyVars, audioVars, exportVars, mediaVars>>

\* effect.setParameter(key, value) / effect.updateParameters(newParams) on the
\* effect id that the list holds, by whoever holds the effect, at any time: the
\* parameter of the effect is effective (value TRUE) or not from then on, at
\* every position of the list that holds the effect
SetParameter(id, value) ==
    /\ \E i \in 1..Len(processors) :
          /\ processors[i].id = id
          /\ processors[i].kind = "effect"
          /\ processors[i].active # value
    /\ processors' = [i \in 1..Len(processors) |->
                         IF processors[i].id = id
                         THEN [processors[i] EXCEPT !.active = value]
                         ELSE processors[i]]
    /\ plOp' = [op |-> "parameter", id |-> id, index |-> 0, before |-> processors,
                disposed |-> <<>>]
    /\ UNCHANGED <<canvasKind, plPc, plPos, currentFrame, handed, failed, called>>
    /\ UNCHANGED <<driverVars, renderVars, keyVars, audioVars, exportVars, mediaVars>>

\* no VideoExporter in use: the engine is driven directly
ExportIdle ==
    /\ xTracks = <<>>
    /\ xProject = [width |-> 64, height |-> 64, fps |-> 1]
    /\ xPc = "idle"
    /\ xErrors = {}
    /\ xDuration = 0
    /\ xCalls = <<>>

\* the record of a call of render that has not happened
NoRender ==
    [index |-> 0, timestamp |-> 0, drawn |-> FALSE, elementTime |-> FDiv(0, 1),
     timeDiff |-> FDiv(0, 1), sought |-> FALSE, presented |-> FDiv(0, 1), rect |-> <<>>]

\* no MediaElementRenderer driven on its own
MediaIdle ==
    /\ mSettings = [fps |-> 1, width |-> 64, height |-> 64, resQ |-> 4]
    /\ mElement = MediaElementOf(0, 0, 0, 0, 1, "image")
    /\ mTimes = <<>>
    /\ mPc = "idle"
    /\ mIndex = 1
    /\ mCached = FALSE
    /\ mCurrentTime = FDiv(0, 1)
    /\ mLast = NoRender

Init == DriverInit /\ RenderIdle /\ KeyIdle /\ AudioIdle /\ PipelineIdle /\ ExportIdle /\ MediaIdle

Next ==
    \/ StartExport
    \/ ConfigFail
    \/ BeginProcessing
    \/ LoopCheck
    \/ EncoderTake
    \/ EncoderDequeue
    \/ \E counted \in BOOLEAN : EncoderOutput(counted)
    \/ EncoderError
    \/ \E outcome \in {"ok", "null", "throw"} : EncodeFrame(outcome)
    \/ FlushDone
    \/ \E ok \in BOOLEAN : AudioDone(ok)
    \/ \E outcome \in {"ok", "reject", "nobuffer"} : FinalizeDone(outcome)
    \/ \E ok \in BOOLEAN : SaveDone(ok)
    \/ Abort

Spec == Init /\ [][Next]_vars

\* export() under the scheduling of the event loop: a continuation of the frame
\* loop that can run does run, renderFrame settles (its loads and seeks resolve
\* or time out), and a configured encoder with queued frames goes on emitting
\* chunks and settles flush().  abort() and an encoder failure may happen or
\* not.  Nothing makes the promises that export() awaits outside the frame loop
\* settle: generateConfig, the save-file dialog of streamTarget.create(),
\* output.start(), the fetch, decodeAudioData and startRendering of
\* processAudio, output.finalize() and saveBuffer have no timeout, and the
\* steps that end them are under no fairness condition.  The steps that leave
\* "rendering" are those of EncodeFrame, which is enabled in every state with
\* pc = "rendering".
SpecTerm ==
    /\ Init
    /\ [][Next]_vars
    /\ WF_vars(LoopCheck)
    /\ WF_vars(EncoderTake)
    /\ WF_vars(EncoderDequeue)
    /\ WF_vars(\E counted \in BOOLEAN : EncoderOutput(counted))
    /\ WF_pc(pc = "rendering" /\ pc' \in {"loop", "error"})
    /\ WF_vars(FlushDone)

\* the driver before export() is called, with fixed settings and timeline length
DriverIdle ==
    /\ DriverInit
    /\ settings = [fps |-> 1, width |-> 64, height |-> 64, resQ |-> 4]
    /\ durTicks = 0
    /\ hasAudio = FALSE

InitRender == DriverIdle /\ RenderInit /\ KeyIdle /\ AudioIdle /\ PipelineIdle /\ ExportIdle /\ MediaIdle

NextRender ==
    \/ RenderFrameStart
    \/ DispatchElement
    \/ LoadSettled
    \/ FinishFrame
    \/ Dispose

SpecRender == InitRender /\ [][NextRender]_vars

\* the requested frame rate passes validateSettings
InitKey ==
    /\ DriverIdle /\ RenderIdle /\ AudioIdle /\ PipelineIdle /\ ExportIdle /\ MediaIdle
    /\ kReq \in 0..MaxFpsQ
    /\ kFps = validateFps(kReq)
    /\ kFrame = 0
    /\ kLastKey = 0 - 1
    /\ kStamps = <<>>

NextKey == EncodeKeyed

SpecKey == InitKey /\ [][NextKey]_vars

InitAudio == DriverIdle /\ RenderIdle /\ KeyIdle /\ AudioInit /\ PipelineIdle /\ ExportIdle /\ MediaIdle

NextAudio ==
    \/ AudioStart
    \/ MixNext
    \/ \E ok \in BOOLEAN : EncodeAudio(ok)

SpecAudio == InitAudio /\ [][NextAudio]_vars

InitPipeline == DriverIdle /\ RenderIdle /\ KeyIdle /\ AudioIdle /\ PipelineInit /\ ExportIdle /\ MediaIdle

NextPipeline ==
    \/ ProcessFrameStart
    \/ ProcessNext
    \/ ProcessFrameReturn

SpecPipeline == InitPipeline /\ [][NextPipeline]_vars

\* the processor list is edited while the pipeline is quiescent, then a frame is
\* processed; the parameters of the effects in it are set at any time, and a
\* processor that the list holds is added again as it is; ids 1..4 are those
\* of ProcessorSet, 5 is the id of no processor
NextList ==
    \/ \E processor \in ProcessorSet :
          /\ \A i \in 1..Len(processors) : processors[i].id # processor.id
          /\ AddProcessor(processor)
    \/ \E i \in 1..MaxProcessors :
          /\ i <= Len(processors)
          /\ AddProcessor(processors[i])
    \/ \E id \in 1..5 : RemoveProcessor(id)
    \/ \E id \in 1..5, newIndex \in (0 - 1)..MaxProcessors : ReorderProcessor(id, newIndex)
    \/ \E id \in 1..5, value \in BOOLEAN : SetParameter(id, value)
    \/ Dispose
    \/ ProcessFrameStart
    \/ ProcessNext
    \/ ProcessFrameReturn

SpecList == InitPipeline /\ [][NextList]_vars

(***************************************************************************)
(* The frame loop of processVideo with renderFrame spelled out: a one      *)
(* second run at 1 fps over a two-track timeline whose media may fail to   *)
(* load or to seek.                                                        *)
(***************************************************************************)
\* clips of the lower track: a video, the same video trimmed at its start, an
\* image, and a video shown from the second frame on; the upper track: a text
\* track with a text clip or a media track with a clip
FrameTimelineSet ==
    LET LowerClipSet ==
            { MediaElementOf(0, 4, 0, 0, 1, "video"), MediaElementOf(0, 5, 1, 0, 1, "video"),
              MediaElementOf(0, 4, 0, 0, 2, "image"), MediaElementOf(2, 2, 0, 0, 1, "video") }
        UpperTrackSet ==
            { TrackOf(k[1], mu, <<k[2]>>) :
                mu \in BOOLEAN,
                k \in { <<"text", TextElementOf(0, 4, 0, 0, 50)>>,
                        <<"media", MediaElementOf(0, 4, 0, 0, 2, "image")>>,
                        <<"media", MediaElementOf(0, 4, 0, 0, 1, "video")>> } }
    IN { <<TrackOf("media", FALSE, <<e>>), upper>> :
           e \in LowerClipSet, upper \in UpperTrackSet }

InitFrames ==
    /\ settings = [fps |-> 1, width |-> 64, height |-> 64, resQ |-> 2]
    /\ durTicks = TicksPerSec
    /\ hasAudio = FALSE
    /\ EngineIdle
    /\ rTimeline \in FrameTimelineSet
    /\ assets \in { a \in [MediaIds -> {"ok", "nosource", "noload", "noseek"}] :
                       a[2] # "noseek" }
    /\ loadCalls = <<>>
    /\ rTime = 0
    /\ rPc = "idle"
    /\ rActive = <<>>
    /\ rOrder = <<>>
    /\ rNext = 1
    /\ rDrawn = <<>>
    /\ rFrame = 0
    /\ rFailed = {}
    /\ rFailedBefore = {}
    /\ context = NewContext
    /\ mediaCache = {}
    /\ KeyIdle /\ AudioIdle /\ PipelineIdle /\ ExportIdle /\ MediaIdle

\* await this.renderer.renderFrame(this.timelineData, timestamp, frame) with
\* timestamp = frame / fps, in ticks (exact for the frame rate of these runs)
CallRenderFrame ==
    /\ pc = "rendering"
    /\ rPc = "idle" \/ (rPc = "done" /\ rFrame # frame)
    /\ RenderFrameEnter((frame * TicksPerSec) \div settings.fps, frame)
    /\ UNCHANGED nonRenderVars

\* renderFrame has returned the frame of this iteration: it is wrapped and encoded
EncodeRendered ==
    /\ rPc = "done"
    /\ rFrame = frame
    /\ EncodeFrame("ok")

NextFrames ==
    \/ StartExport
    \/ ConfigFail
    \/ BeginProcessing
    \/ LoopCheck
    \/ EncoderTake
    \/ EncoderDequeue
    \/ \E counted \in BOOLEAN : EncoderOutput(counted)
    \/ CallRenderFrame
    \/ DispatchElement
    \/ LoadSettled
    \/ SeekSettled
    \/ FinishFrame
    \/ EncodeRendered
    \/ FlushDone
    \/ \E outcome \in {"ok", "reject", "nobuffer"} : FinalizeDone(outcome)
    \/ \E ok \in BOOLEAN : SaveDone(ok)
    \/ EncoderError
    \/ Abort
    \/ Dispose

SpecFrames == InitFrames /\ [][NextFrames]_vars

(***************************************************************************)
(* One timeline seen by both consumers: renderFrame at one timestamp and   *)
(* processAudio over the whole length.  The media id of an element names   *)
(* the source its bytes decode to.                                         *)
(***************************************************************************)
MuteTimelineSet ==
    LET MuteClipSet ==
            { MediaElementOf(0, 4, 0, 0, 1, "audio"), MediaElementOf(0, 4, 0, 0, 2, "video"),
              MediaElementOf(1, 4, 1, 0, 2, "video"), TextElementOf(0, 4, 0, 0, 50) }
    IN { <<TrackOf(t1, m1, <<e1>>), TrackOf(t2, m2, <<e2>>)>> :
           t1 \in {"media", "audio"}, t2 \in {"media", "text"},
           m1 \in BOOLEAN, m2 \in BOOLEAN, e1 \in MuteClipSet, e2 \in MuteClipSet }

\* the timeline with each element as mixAudioElement reads it: fetch(element.url)
\* and decodeAudioData
AudioTimelineOf(tl) ==
    LET AudioSourceOf(element) ==
            [type |-> element.type, mediaType |-> element.mediaType,
             startTime |-> element.startTime, duration |-> element.duration,
             trimStart |-> element.trimStart, trimEnd |-> element.trimEnd,
             src |-> element.mediaId]
    IN [ti \in 1..Len(tl) |->
           TrackOf(tl[ti].type, tl[ti].muted,
                   [ei \in 1..Len(tl[ti].elements) |->
                       AudioSourceOf(tl[ti].elements[ei])])]

InitMute ==
    /\ DriverIdle
    /\ rTimeline \in MuteTimelineSet
    /\ rTime \in {0, TicksPerSec}
    /\ rPc = "idle"
    /\ rActive = <<>>
    /\ rOrder = <<>>
    /\ rNext = 1
    /\ rDrawn = <<>>
    /\ rFrame = 0
    /\ rFailed = {}
    /\ rFailedBefore = {}
    /\ context = NewContext
    /\ mediaCache = {}
    /\ assets = [id \in MediaIds |-> "ok"]
    /\ loadCalls = <<>>
    /\ aTracks = AudioTimelineOf(rTimeline)
    /\ aDuration = MaxAudioDur
    /\ aChannels \in {1, 2}
    /\ aPc = "idle"
    /\ aNext = 1
    /\ aOut = <<>>
    /\ KeyIdle /\ PipelineIdle /\ ExportIdle /\ MediaIdle

NextMute ==
    \/ RenderFrameStart
    \/ DispatchElement
    \/ LoadSettled
    \/ SeekSettled
    \/ FinishFrame
    \/ AudioStart
    \/ MixNext
    \/ \E ok \in BOOLEAN : EncodeAudio(ok)

SpecMute == InitMute /\ [][NextMute]_vars

(***************************************************************************)
(* VideoExporter.exportTimeline: transform, validate, generate settings,   *)
(* then the engine's export() with renderFrame and processAudio spelled    *)
(* out.  An id is 0 and a name or content is "" where the string is empty. *)
(***************************************************************************)
\* mediaItems: an audio file, a video, an image, and an image without file or url
MediaItems ==
    << [id |-> 1, type |-> "audio", hasSource |-> TRUE],
       [id |-> 2, type |-> "video", hasSource |-> TRUE],
       [id |-> 3, type |-> "image", hasSource |-> TRUE],
       [id |-> 4, type |-> "image", hasSource |-> FALSE] >>

\* OpenCutMediaElement and OpenCutTextElement
InMedia(id, start, dur, ts, te, mediaId) ==
    [id |-> id, type |-> "media", startTime |-> start, duration |-> dur,
     trimStart |-> ts, trimEnd |-> te, mediaId |-> mediaId, content |-> "",
     opacity |-> 0]

InText(id, start, dur, ts, te, content) ==
    [id |-> id, type |-> "text", startTime |-> start, duration |-> dur,
     trimStart |-> ts, trimEnd |-> te, mediaId |-> 0, content |-> content,
     opacity |-> 50]

\* OpenCutTimelineTrack
InTrack(id, name, type, muted, elements) ==
    [id |-> id, name |-> name, type |-> type, muted |-> muted, elements |-> elements]

\* mutant of FindMediaItem: an unknown id finds the first item
FindMediaItemOrFirst(mediaId) ==
    LET Matches(item) == item.id = mediaId
    IN IF SelectSeq(MediaItems, Matches) = <<>>
       THEN <<MediaItems[1]>> ELSE SelectSeq(MediaItems, Matches)

\* mediaItems.find(item => item.id === element.mediaId), as a sequence of 0 or 1
FindMediaItem(mediaId) ==
    LET Matches(item) == item.id = mediaId IN SelectSeq(MediaItems, Matches)

\* transformMediaElement / transformTextElement: the times are copied
transformElement(element) ==
    IF element.type = "media"
    THEN LET mediaItem == Head(FindMediaItem(element.mediaId))
         IN MediaElementOf(element.startTime, element.duration, element.trimStart,
                           element.trimEnd, element.mediaId, mediaItem.type)
              @@ [id |-> element.id, hasSource |-> mediaItem.hasSource, content |-> ""]
    ELSE TextElementOf(element.startTime, element.duration, element.trimStart,
                       element.trimEnd, element.opacity)
              @@ [id |-> element.id, hasSource |-> FALSE, content |-> element.content]

\* transformTrack: the elements for which transformElement does not return null
transformTrack(track) ==
    LET IsTransformed(element) ==
            \/ element.type = "text"
            \/ element.type = "media" /\ FindMediaItem(element.mediaId) # <<>>
        kept == SelectSeq(track.elements, IsTransformed)
    IN [id |-> track.id, name |-> track.name, type |-> track.type, muted |-> track.muted,
        elements |-> [i \in 1..Len(kept) |-> transformElement(kept[i])]]

\* mutant of calculateTotalDuration: the trims are not subtracted
calculateRawDuration(tracks) ==
    LET ends == { LET element == ElementAt(tracks, r)
                  IN element.startTime + element.duration :
                  r \in { VisitOrder(tracks, 1, 1)[i] :
                            i \in 1..Len(VisitOrder(tracks, 1, 1)) } }
    IN IF \E e \in ends : e > 0 THEN CHOOSE e \in ends : \A f \in ends : f <= e ELSE 0

\* the greatest startTime + duration - trimStart - trimEnd, and at least 0
calculateTotalDuration(tracks) ==
    LET ends == { LET element == ElementAt(tracks, r)
                  IN element.startTime
                       + (element.duration - element.trimStart - element.trimEnd) :
                  r \in { VisitOrder(tracks, 1, 1)[i] :
                            i \in 1..Len(VisitOrder(tracks, 1, 1)) } }
    IN IF \E e \in ends : e > 0 THEN CHOOSE e \in ends : \A f \in ends : f <= e ELSE 0

\* TimelineDataTransformer.transform
transform(tracks, projectSettings) ==
    LET exportTracks == [ti \in 1..Len(tracks) |-> transformTrack(tracks[ti])]
    IN [tracks |-> exportTracks, duration |-> calculateTotalDuration(exportTracks),
        settings |-> projectSettings]

\* mutant of validateTimelineData: nothing is reported
validateNothing(data) == {}

\* TimelineDataTransformer.validateTimelineData: the kinds of error pushed
validateTimelineData(data) ==
    LET refs == { VisitOrder(data.tracks, 1, 1)[i] :
                    i \in 1..Len(VisitOrder(data.tracks, 1, 1)) }
        elements == { ElementAt(data.tracks, r) : r \in refs }
    IN (IF Len(data.tracks) = 0 THEN {"no tracks"} ELSE {})
       \cup (IF data.duration <= 0 THEN {"duration"} ELSE {})
       \cup (IF ElementCount(data.tracks) = 0 THEN {"no elements"} ELSE {})
       \cup (IF data.settings.width = 0 \/ data.settings.height = 0
             THEN {"settings"} ELSE {})
       \cup (IF \E ti \in 1..Len(data.tracks) :
                    data.tracks[ti].id = 0 \/ data.tracks[ti].name = ""
             THEN {"track"} ELSE {})
       \cup (IF \E element \in elements :
                    element.id = 0 \/ element.startTime < 0 \/ element.duration <= 0
             THEN {"element"} ELSE {})
       \cup (IF \E element \in elements : element.type = "media" /\ element.mediaId = 0
             THEN {"mediaId"} ELSE {})
       \cup (IF \E element \in elements : element.type = "media" /\ ~element.hasSource
             THEN {"source"} ELSE {})
       \cup (IF \E element \in elements : element.type = "text" /\ element.content = ""
             THEN {"content"} ELSE {})

\* generateExportSettings with no options: the project's frame rate and size,
\* resolution 1, two channels, 48000 Hz, passed through validateSettings, which
\* brings the frame rate and the size into their ranges (defaults 1920 x 1080)
generateExportSettings(data) ==
    [fps |-> validateFps(4 * data.settings.fps) \div 4,
     width |-> Max(64, Min(7680, IF data.settings.width = 0
                                 THEN 1920 ELSE data.settings.width)),
     height |-> Max(64, Min(4320, IF data.settings.height = 0
                                  THEN 1080 ELSE data.settings.height)),
     resQ |-> 4]

\* VideoExportEngine.hasAudioTracks
hasAudioTracks(tracks) ==
    \E ti \in 1..Len(tracks) :
        \/ tracks[ti].type = "audio"
        \/ /\ tracks[ti].type = "media"
           /\ \E ei \in 1..Len(tracks[ti].elements) :
                 IsAudioBearing(tracks[ti].elements[ei])

\* elements of the timelines handed to exportTimeline: well formed ones, ones the
\* validation has a test for, and ones with negative or excessive trims
InElementSet ==
    { InMedia(1, 0, 2, 0, 0, 3), InMedia(1, 0, 2, 0, 0, 2), InMedia(1, 0, 2, 0, 0, 1),
      InText(1, 0, 2, 0, 0, "x"),
      InMedia(1, 0 - 1, 2, 0, 0, 3), InMedia(1, 0, 0, 0, 0, 3), InMedia(0, 0, 2, 0, 0, 3),
      InMedia(1, 0, 2, 0, 0, 4), InMedia(1, 0, 2, 0, 0, 5), InText(1, 0, 2, 0, 0, ""),
      InMedia(1, 0, 2, 0 - 1, 0, 3), InMedia(1, 0, 2, 0, 0 - 1, 3),
      InMedia(1, 0, 2, 1, 1, 3), InMedia(1, 0, 2, 2, 1, 3) }

\* the track an element is put on
InTrackFor(id, element) ==
    InTrack(id, "t", IF element.type = "text" THEN "text" ELSE "media", FALSE, <<element>>)

InTimelineSet ==
    { <<>>, <<InTrack(1, "t", "media", FALSE, <<>>)>> }
    \cup { <<InTrackFor(1, e)>> : e \in InElementSet }
    \cup { <<InTrackFor(1, InMedia(1, 0, 2, 0, 0, 3)), InTrackFor(2, e)>> :
             e \in InElementSet }
    \cup { <<InTrackFor(1, InMedia(1, 0, 2, 0, 0, 3)), InTrack(2, "t", "audio", mu, es)>> :
             mu \in BOOLEAN, es \in { <<>>, <<InMedia(1, 0, 2, 0, 0, 1)>> } }
    \cup { <<InTrackFor(1, InMedia(1, 0, 2, 0, 0, 3)),
             InTrack(2, "t", "media", TRUE, <<InMedia(1, 0, 2, 0, 0, 2)>>)>>,
           <<InTrackFor(1, InMedia(1, 0, 3, 1, 0, 2))>>,
           <<InTrack(0, "t", "media", FALSE, <<InMedia(1, 0, 2, 0, 0, 3)>>)>>,
           <<InTrack(1, "", "media", FALSE, <<InMedia(1, 0, 2, 0, 0, 3)>>)>>,
           <<InTrack(1, "t", "media", FALSE,
                     <<InMedia(1, 0, 2, 0, 1, 3), InMedia(2, 0, 3, 0, 0, 5)>>),
             InTrack(2, "t", "text", FALSE, <<InText(3, 1, 2, 1, 0, "x")>>)>> }

InitExport ==
    /\ DriverIdle
    /\ RenderIdle /\ KeyIdle /\ AudioIdle /\ PipelineIdle /\ MediaIdle
    /\ xTracks \in InTimelineSet
    /\ xProject \in { [width |-> 64, height |-> 64, fps |-> 1],
                       [width |-> 0, height |-> 64, fps |-> 1],
                       [width |-> 32, height |-> 64, fps |-> 1],
                       [width |-> 64, height |-> 4321, fps |-> 1] }
    /\ xPc = "idle"
    /\ xErrors = {}
    /\ xDuration = 0
    /\ xCalls = <<>>

\* exportTimeline up to the call of engine.export(): a timeline that fails the
\* validation throws before an engine exists and the catch block calls
\* options.onError; otherwise the engine, its renderer and its audio processor
\* are constructed over the transformed timeline and options.onError and
\* options.onComplete are registered for the engine's 'error' and 'complete'.
\* audioConfig is what generateAudioConfig will find on this platform.
ExportTimeline ==
    /\ xPc = "idle"
    /\ LET timelineData     == transform(xTracks, xProject)
           validationErrors == validateTimelineData(timelineData)
       IN /\ xErrors' = validationErrors
          /\ xDuration' = timelineData.duration
          /\ xCalls' = IF validationErrors # {} THEN <<"onError">> ELSE <<>>
          /\ IF validationErrors # {}
             THEN /\ xPc' = "failed"
                  /\ UNCHANGED <<settings, durTicks, hasAudio, rTimeline, assets,
                                 aTracks, aDuration, aChannels>>
             ELSE /\ xPc' = "engine"
                  /\ settings' = generateExportSettings(timelineData)
                  /\ durTicks' = timelineData.duration
                  /\ \E audioConfig \in BOOLEAN :
                        hasAudio' = (audioConfig /\ hasAudioTracks(timelineData.tracks))
                  /\ rTimeline' = timelineData.tracks
                  /\ assets' = [item \in 1..Len(MediaItems) |-> "ok"]
                  /\ aTracks' = AudioTimelineOf(timelineData.tracks)
                  /\ aDuration' = timelineData.duration
                  /\ aChannels' = 2
    /\ UNCHANGED <<pc, frame, controller, abortCalls, abortPc, abortFrame, encState,
                   encFailed, queue, inFlight, dequeueDue, encodedChunks, submitted, canvas, progress,
                   procAfterAbort, muxer, saved, terminal, failure>>
    /\ UNCHANGED <<rTime, rPc, rActive, rOrder, rNext, rDrawn, rFrame, rFailed,
                   rFailedBefore, context, mediaCache, loadCalls>>
    /\ UNCHANGED <<aPc, aNext, aOut>>
    /\ UNCHANGED <<xTracks, xProject>>
    /\ UNCHANGED <<keyVars, pipelineVars, mediaVars>>

\* mutant of CallProcessAudio: the audio is processed while frames are encoded
CallProcessAudioEarly == pc \in {"loop", "audio"} /\ AudioStart

\* processAudio is called once the video is flushed
CallProcessAudio == pc = "audio" /\ AudioStart

\* await this.engine.export() settles: the result is returned, or the catch
\* block of exportTimeline calls options.onError and rethrows
ExportSettled ==
    /\ xPc = "engine"
    /\ pc \in {"complete", "error"}
    /\ xPc' = IF pc = "error" THEN "thrown" ELSE "returned"
    /\ xCalls' = IF pc = "error" THEN Append(xCalls, "onError") ELSE xCalls
    /\ UNCHANGED <<xTracks, xProject, xErrors, xDuration>>
    /\ UNCHANGED <<driverVars, renderVars, keyVars, audioVars, pipelineVars, mediaVars>>

NextExport ==
    \/ ExportTimeline
    \/ (xPc = "engine" /\ StartExport)
    \/ ConfigFail
    \/ BeginProcessing
    \/ LoopCheck
    \/ EncoderTake
    \/ EncoderDequeue
    \/ \E counted \in BOOLEAN : EncoderOutput(counted)
    \/ CallRenderFrame
    \/ DispatchElement
    \/ LoadSettled
    \/ SeekSettled
    \/ FinishFrame
    \/ EncodeRendered
    \/ FlushDone
    \/ CallProcessAudio
    \/ MixNext
    \/ \E ok \in BOOLEAN : EncodeAudio(ok)
    \/ (aPc \in {"done", "failed"} /\ AudioDone(aPc = "done"))
    \/ \E outcome \in {"ok", "reject", "nobuffer"} : FinalizeDone(outcome)
    \/ \E ok \in BOOLEAN : SaveDone(ok)
    \/ EncoderError
    \/ (xPc \in {"engine", "returned", "thrown"} /\ pc # "idle" /\ abortCalls = 0 /\ Abort)
    \/ ExportSettled

SpecExport == InitExport /\ [][NextExport]_vars

(***************************************************************************)
(* MediaElementRenderer.render on one element whose asset loads, called    *)
(* once per frame of the frame loop or at given timestamps.  The times of  *)
(* the element and the timestamps are given in units of 1 / UnitsPerSec    *)
(* seconds, which holds the frame times of every frame rate used here and  *)
(* the millisecond; the renderer computes with the doubles of these times, *)
(* units / UnitsPerSec, as frame / fps and the decimal literals are.       *)
(***************************************************************************)
UnitsPerSec == 3000

\* const tolerance = 1 / 60, as the frame rate it is one frame of
ToleranceRate == 60

\* microseconds by which the position a video reports after a seek may lie
\* before the requested time cut to whole microseconds
MaxSeekLag == 1

\* mutant of seekVideo: the current frame of the decoder is always reused
seekVideoNever(currentTime, time, lag) ==
    [sought |-> FALSE, currentTime |-> currentTime, timeDiff |-> FAbsSub(currentTime, time)]

\* MediaElementRenderer.seekVideo with a seek that completes, on doubles:
\* within the tolerance nothing is done, otherwise video.currentTime = time and
\* 'seeked' is awaited.  The currentTime that later calls read is the position
\* the video reports (the video is longer than every time asked for): the
\* platform keeps positions in whole microseconds, cutting the time assigned,
\* and its clock may report the position up to lag microseconds earlier
seekVideo(currentTime, time, lag) ==
    LET tolerance == FDiv(1, ToleranceRate)
        timeDiff  == FAbsSub(currentTime, time)
        micros    == FFloor(FMulInt(time, MicrosPerSec))
        reported  == FDiv(IF micros > lag THEN micros - lag ELSE 0, MicrosPerSec)
    IN IF FLess(timeDiff, tolerance)
       THEN [sought |-> FALSE, currentTime |-> currentTime, timeDiff |-> timeDiff]
       ELSE [sought |-> TRUE, currentTime |-> reported, timeDiff |-> timeDiff]

\* the rectangle of the canvas of FrameRenderer, Math.round(width * resolution) by
\* Math.round(height * resolution), in sixteenths of a pixel
CanvasRect(s) ==
    [x |-> 0, y |-> 0, w16 |-> 16 * EffSize(s.width, s.resQ),
     h16 |-> 16 * EffSize(s.height, s.resQ)]

\* the device rectangle of drawImage(media, 0, 0, w, h) under a transform that
\* has been scaled by resolution = resQ / 4 not at all (c.scale = 0) or once
\* (c.scale = 1, as after applyElementProperties on the context of a new canvas),
\* in sixteenths of a pixel; w4 and h4 are w and h in quarters of a pixel
drawImage(c, resQ, w4, h4) ==
    IF c.scale = 0 THEN [x |-> 0, y |-> 0, w16 |-> 4 * w4, h16 |-> 4 * h4]
    ELSE [x |-> 0, y |-> 0, w16 |-> w4 * resQ, h16 |-> h4 * resQ]

\* MediaElementRenderer.renderVideoToCanvas
renderVideoToCanvas(c, s) == drawImage(c, s.resQ, s.width * s.resQ, s.height * s.resQ)

\* MediaElementRenderer.renderImage
renderImage(c, s) == drawImage(c, s.resQ, s.width * s.resQ, s.height * s.resQ)

\* MediaElementRenderer.render on an element whose media is loaded and whose
\* seeks complete: what is drawn where, and where the decoder (standing at the
\* double currentTime) stands after it, the platform reporting the position of
\* a seek lag microseconds early.  elementTime is getElementTime on the
\* doubles, timestamp - element.startTime + element.trimStart, the difference
\* being that of an active element and so not negative.  isElementActive
\* compares the times in units: the bounds of the elements used here are whole
\* seconds or 0.1, sums of doubles that are exact, and rounding keeps the order
MediaRenderAt(s, element, currentTime, timestamp, lag) ==
    IF ~isElementActive(element, timestamp)
    THEN [drawn |-> FALSE, elementTime |-> FDiv(0, 1), timeDiff |-> FDiv(0, 1),
          sought |-> FALSE, presented |-> currentTime, rect |-> <<>>]
    ELSE LET applied     == applyElementProperties(NewContext, element)
             elementTime == FAdd(FAbsSub(FDiv(timestamp, UnitsPerSec),
                                         FDiv(element.startTime, UnitsPerSec)),
                                 FDiv(element.trimStart, UnitsPerSec))
         IN IF element.mediaType = "video"
            THEN LET seek == seekVideo(currentTime, elementTime, lag)
                 IN [drawn |-> TRUE, elementTime |-> elementTime,
                     timeDiff |-> seek.timeDiff, sought |-> seek.sought,
                     presented |-> seek.currentTime,
                     rect |-> <<renderVideoToCanvas(applied, s)>>]
            ELSE [drawn |-> TRUE, elementTime |-> elementTime, timeDiff |-> FDiv(0, 1),
                  sought |-> FALSE, presented |-> currentTime,
                  rect |-> <<renderImage(applied, s)>>]

\* mutant of MediaFrameTimes: the loop stops before frame totalFrames
MediaFrameTimesExclusive(duration, fps) ==
    LET product == FMulInt(FDiv(duration, UnitsPerSec), fps)
        ceil    == FFloor(product)
                     + (IF \E i \in 1..Len(product.m) :
                              i > Len(product.m) + product.e /\ product.m[i] = 1
                        THEN 1 ELSE 0)
    IN [k \in 1..ceil |-> ((k - 1) * UnitsPerSec) \div fps]

\* timestamp = frame / fps for frame = 0 .. Math.ceil(duration * fps), in units;
\* the product is that of the doubles
MediaFrameTimes(duration, fps) ==
    LET product == FMulInt(FDiv(duration, UnitsPerSec), fps)
        ceil    == FFloor(product)
                     + (IF \E i \in 1..Len(product.m) :
                              i > Len(product.m) + product.e /\ product.m[i] = 1
                        THEN 1 ELSE 0)
    IN [k \in 1..(ceil + 1) |-> ((k - 1) * UnitsPerSec) \div fps]

\* a run of the frame loop over the timeline that holds this one element
MediaRunOf(s, element) ==
    [settings |-> s, element |-> element,
     times |-> MediaFrameTimes(
                   calculateTotalDuration(<<TrackOf("media", FALSE, <<element>>)>>), s.fps)]

\* scenario S2: an image from 0 s to 2 s on 640 x 360 at 30 fps
S2Settings == [fps |-> 30, width |-> 640, height |-> 360, resQ |-> 4]

S2Element == MediaElementOf(0, 2 * UnitsPerSec, 0, 0, 1, "image")

\* scenario S5: a video with startTime 1.0, duration 3.0, trimStart 2.0, trimEnd 0
S5Element == MediaElementOf(UnitsPerSec, 3 * UnitsPerSec, 2 * UnitsPerSec, 0, 1, "video")

\* the timestamps 1.0 and 3.999 of scenario S5, and 1.01 between them
S5Times == <<UnitsPerSec, (101 * UnitsPerSec) \div 100, (3999 * UnitsPerSec) \div 1000>>

\* a MediaElementRenderer with an empty cache, and the calls of render it will
\* get: scenarios S2 and S5 as runs of the frame loop, the timestamps of S5, and
\* a tenth of a second of video or image from time 0 on at several frame rates,
\* frame sizes and resolutions (in quarters)
InitMedia ==
    /\ DriverIdle /\ RenderIdle /\ KeyIdle /\ AudioIdle /\ PipelineIdle /\ ExportIdle
    /\ \E sc \in
            { MediaRunOf(S2Settings, S2Element), MediaRunOf(S2Settings, S5Element),
              [settings |-> S2Settings, element |-> S5Element, times |-> S5Times] }
            \cup { MediaRunOf([fps |-> f, width |-> z[1], height |-> z[2], resQ |-> q],
                              MediaElementOf(0, UnitsPerSec \div 10, 0, 0, 1, kind)) :
                     f \in {30, 60, 100, 120}, z \in {<<64, 64>>, <<640, 360>>},
                     q \in {1, 2, 3, 4, 6, 8, 16}, kind \in {"video", "image"} } :
          /\ mSettings = sc.settings
          /\ mElement = sc.element
          /\ mTimes = sc.times
    /\ mPc = "run"
    /\ mIndex = 1
    /\ mCached = FALSE
    /\ mCurrentTime = FDiv(0, 1)
    /\ mLast = NoRender

\* render(element, timestamp) is called for the next timestamp: it returns at
\* once for an element that is not active, and otherwise awaits loadMedia
MediaRenderCall ==
    /\ mPc = "run"
    /\ mIndex <= Len(mTimes)
    /\ IF isElementActive(mElement, mTimes[mIndex])
       THEN /\ mPc' = "load"
            /\ UNCHANGED <<mIndex, mLast>>
       ELSE /\ mLast' = MediaRenderAt(mSettings, mElement, mCurrentTime, mTimes[mIndex], 0)
                           @@ [index |-> mIndex, timestamp |-> mTimes[mIndex]]
            /\ mIndex' = mIndex + 1
            /\ UNCHANGED mPc
    /\ UNCHANGED <<mSettings, mElement, mTimes, mCached, mCurrentTime>>
    /\ UNCHANGED <<driverVars, renderVars, keyVars, audioVars, pipelineVars, exportVars>>

\* loadMedia resolves with the cached media, or with the media it has loaded
\* and cached, a video loaded standing at time 0.  render goes on to
\* applyElementProperties and getElementTime; an image is drawn, and so is a
\* video that seekVideo finds within the tolerance, and render returns;
\* otherwise seekVideo assigns video.currentTime and 'seeked' is awaited
MediaLoaded ==
    /\ mPc = "load"
    /\ mCached' = TRUE
    /\ LET currentTime == IF mCached THEN mCurrentTime ELSE FDiv(0, 1)
           result      == MediaRenderAt(mSettings, mElement, currentTime, mTimes[mIndex], 0)
       IN /\ mCurrentTime' = currentTime
          /\ IF result.sought
             THEN /\ mPc' = "seeking"
                  /\ UNCHANGED <<mIndex, mLast>>
             ELSE /\ mLast' = result @@ [index |-> mIndex, timestamp |-> mTimes[mIndex]]
                  /\ mIndex' = mIndex + 1
                  /\ mPc' = "run"
    /\ UNCHANGED <<mSettings, mElement, mTimes>>
    /\ UNCHANGED <<driverVars, renderVars, keyVars, audioVars, pipelineVars, exportVars>>

\* 'seeked' fires: the video stands at the position it reports from now on,
\* renderVideoToCanvas draws it and render returns
MediaSeeked(lag) ==
    /\ mPc = "seeking"
    /\ LET result == MediaRenderAt(mSettings, mElement, mCurrentTime, mTimes[mIndex], lag)
       IN /\ mLast' = result @@ [index |-> mIndex, timestamp |-> mTimes[mIndex]]
          /\ mCurrentTime' = result.presented
    /\ mIndex' = mIndex + 1
    /\ mPc' = "run"
    /\ UNCHANGED <<mSettings, mElement, mTimes, mCached>>
    /\ UNCHANGED <<driverVars, renderVars, keyVars, audioVars, pipelineVars, exportVars>>

\* the last timestamp has been rendered
MediaRunDone ==
    /\ mPc = "run"
    /\ mIndex > Len(mTimes)
    /\ mPc' = "done"
    /\ UNCHANGED <<mSettings, mElement, mTimes, mIndex, mCached, mCurrentTime, mLast>>
    /\ UNCHANGED <<driverVars, renderVars, keyVars, audioVars, pipelineVars, exportVars>>

NextMedia ==
    \/ MediaRenderCall
    \/ MediaLoaded
    \/ \E lag \in 0..MaxSeekLag : MediaSeeked(lag)
    \/ MediaRunDone

SpecMedia == InitMedia /\ [][NextMedia]_vars

(***************************************************************************)
(* Properties of the encoder driver (checked under Spec).                  *)
(***************************************************************************)
\* the frame loop has run to its end
LoopDone == pc \in {"flush", "audio", "finalize", "saving", "complete"}

\* n = ceil(duration * fps)
IsCeilFrames(n) ==
    /\ n * TicksPerSec >= durTicks * settings.fps
    /\ (n - 1) * TicksPerSec < durTicks * settings.fps

\* the frames submitted so far are the indices 0, 1, 2, ... in this order
InFrameOrder == \A i \in 1..Len(submitted) : submitted[i].k = i - 1

\* C1 as amended: the frames submitted are always the indices 0, 1, ... in
\* increasing order, each once; when the loop has run to its end they are exactly
\* the N+1 indices 0..N with N = ceil(D*fps); that is 2 frames when
\* 0 < D < 1/fps and 1 frame when D = 0.
C1_FrameCount ==
    /\ InFrameOrder
    /\ (Len(submitted) - 2) * TicksPerSec < durTicks * settings.fps
    /\ LoopDone =>
        /\ IsCeilFrames(Len(submitted) - 1)
        /\ (0 < durTicks /\ durTicks * settings.fps < TicksPerSec) => Len(submitted) = 2
        /\ durTicks = 0 => Len(submitted) = 1

C1_Witness ==
    /\ pc = "complete"
    /\ 0 < durTicks
    /\ durTicks * settings.fps < TicksPerSec
    /\ Len(submitted) = 2

\* C1 as claimed: N+1 frames in order, which is exactly 2 frames for every
\* D < 1/fps (D = 0 included).
C1_Original ==
    LoopDone =>
        /\ InFrameOrder
        /\ IsCeilFrames(Len(submitted) - 1)
        /\ durTicks * settings.fps < TicksPerSec => Len(submitted) = 2

\* C3: a frame is handed to the encoder only while its queue holds at most
\* gpuBatchSize frames, so the queue never holds more than gpuBatchSize + 1; and
\* while frame k is composited every earlier frame has been handed to the encoder.
C3_Backpressure ==
    /\ [](/\ queue <= gpuBatchSize + 1
          /\ pc = "rendering" => (Len(submitted) = frame /\ InFrameOrder))
    /\ [][Len(submitted') > Len(submitted) => queue <= gpuBatchSize]_vars

C3_Witness == pc = "wait" /\ queue = gpuBatchSize + 1 /\ Len(submitted) = frame

\* C4 as claimed: abort() before the MP4 is handed to the byte-sink keeps the run
\* from completing and saveBuffer from being invoked.
C4_Original ==
    abortPc \in {"starting", "loop", "wait", "rendering", "flush", "audio", "finalize"}
        => (pc # "complete" /\ saved = 0)

\* C5 as claimed: after abort() during the frame loop at most one more
\* 'processing' event is emitted and the run ends in the error stage.
C5_Original ==
    abortPc \in {"loop", "wait", "rendering"} =>
        /\ procAfterAbort <= 1
        /\ pc \in {"complete", "error"} => progress[Len(progress)].stage = "error"

\* C6 as claimed: when abort() arrives during the wait for 'dequeue', the driver
\* renders and encodes no further frame once the wait ends, and fails.
C6_Original ==
    (abortPc = "wait" /\ pc # "wait") => (pc = "error" /\ Len(submitted) = abortFrame)

StageRank(stage) ==
    CASE stage = "initializing" -> 0
      [] stage = "processing"   -> 1
      [] stage = "finalizing"   -> 2
      [] stage = "complete"     -> 3
      [] stage = "error"        -> 3

PercentInRange(ev) == ev.den > 0 /\ 0 <= ev.num /\ ev.num <= 100 * ev.den

PercentLeq(a, b) == a.den > 0 /\ b.den > 0 /\ a.num * b.den <= b.num * a.den

\* C7 as claimed: every percentage lies in 0..100, percentages never decrease and
\* stages only move forward, over all events of a run.
C7_Original ==
    \A i \in 1..Len(progress) :
        /\ PercentInRange(progress[i])
        /\ i > 1 => /\ PercentLeq(progress[i - 1], progress[i])
                    /\ StageRank(progress[i - 1].stage) <= StageRank(progress[i].stage)

\* m = Math.round(n * resQ / 4)
IsRounded(m, n, resQ) == 4 * m - 2 <= n * resQ /\ n * resQ < 4 * m + 2

\* C10: whatever the outcome of a frame's composition, the frame is submitted
\* with its own index and timestamp on a surface of the effective size, so the
\* number, order and timestamps of the submitted frames are those of a run
\* without render failures.
C10_Fallback ==
    /\ [](/\ canvas # "none" => Len(submitted) = frame
          /\ LoopDone => Len(submitted) = totalFrames + 1)
    /\ [][Len(submitted') > Len(submitted) =>
            LET f == submitted'[Len(submitted')]
            IN /\ submitted' = Append(submitted, f)
               /\ f.k = frame
               /\ f.timestamp = FrameTimestamp(frame, settings.fps)
               /\ f.duration = FrameDuration(settings.fps)
               /\ IsRounded(f.w, settings.width, settings.resQ)
               /\ IsRounded(f.h, settings.height, settings.resQ)]_vars

C10_Witness ==
    /\ canvas = "fallback"
    /\ Len(submitted) = 2
    /\ settings.resQ # 4
    /\ submitted[2].w # settings.width

\* the run has ended because the abort check of the frame loop threw
Cancelled == pc = "error" /\ failure = "aborted"

\* C15 as claimed: when a run is cancelled, the video encoder is closed and the
\* muxer is cancelled (and never finalized) by the time the run has reported its
\* terminal state.
C15_Original == Cancelled => (encState = "closed" /\ muxer = "cancelled")

\* C16 as claimed: the terminal progress stage and the terminal event of a
\* cancelled run differ from the 'error' stage and 'error' event of a failed run.
C16_Original ==
    Cancelled => /\ progress[Len(progress)].stage # "error"
                 /\ terminal[Len(terminal)] # "error"

\* C17: once the video encoder has reported an error the encoder is closed, the
\* run never gets past processVideo (no audio, no finalize, no saveBuffer, no
\* 'complete'), and when it has ended its last progress stage and its only
\* terminal event are 'error'.
C17_EncoderErrorFatal ==
    encFailed =>
        /\ encState = "closed"
        /\ pc \in {"loop", "wait", "rendering", "flush", "error"}
        /\ saved = 0
        /\ muxer # "finalized"
        /\ \A i \in 1..Len(progress) : progress[i].stage # "complete"
        /\ pc = "error" => /\ progress[Len(progress)].stage = "error"
                           /\ terminal = <<"error">>

C17_Witness ==
    /\ encFailed
    /\ pc = "error"
    /\ failure = "encoder"
    /\ Len(submitted) = totalFrames + 1
    /\ totalFrames > 0

(***************************************************************************)
(* Properties of the frame renderer (checked under SpecRender).            *)
(***************************************************************************)
Range(seq) == { seq[i] : i \in 1..Len(seq) }

AllElements == Range(VisitOrder(rTimeline, 1, 1))

\* the active interval [startTime, startTime + duration - trimStart - trimEnd)
InActiveInterval(e, t) ==
    e.startTime <= t /\ t < e.startTime + e.duration - e.trimStart - e.trimEnd

\* C8: the elements collected for timestamp t are those with
\* startTime <= t < startTime + duration - trimStart - trimEnd, and
\* isElementActive answers the same for every element.
C8_Activation ==
    rPc # "idle" =>
        \A r \in AllElements :
            /\ (r \in Range(rActive)) <=> InActiveInterval(ElementAt(rTimeline, r), rTime)
            /\ isElementActive(ElementAt(rTimeline, r), rTime) <=> (r \in Range(rActive))

C8_Witness ==
    /\ rPc = "done"
    /\ \E r \in AllElements :
          /\ ElementAt(rTimeline, r).startTime = rTime
          /\ r \in Range(rActive)
    /\ \E r \in AllElements :
          LET e == ElementAt(rTimeline, r)
          IN /\ e.startTime + e.duration - e.trimStart - e.trimEnd = rTime
             /\ e.startTime < rTime
             /\ r \notin Range(rActive)

\* (text-track flag, track index, element index), compared lexicographically
DrawnBefore(a, b) ==
    LET ta == IF rTimeline[a.ti].type = "text" THEN 1 ELSE 0
        tb == IF rTimeline[b.ti].type = "text" THEN 1 ELSE 0
    IN \/ ta < tb
       \/ ta = tb /\ a.ti < b.ti
       \/ ta = tb /\ a.ti = b.ti /\ a.ei < b.ei

\* C9: the elements to render are exactly the active ones, ordered by (text-track
\* flag, track index, element index), and they are dispatched one after the other
\* in that order.
C9_RenderOrder ==
    rPc # "idle" =>
        /\ Range(rOrder) = Range(rActive)
        /\ Len(rOrder) = Len(rActive)
        /\ \A i, j \in 1..Len(rOrder) : i < j => DrawnBefore(rOrder[i], rOrder[j])
        /\ \A i, j \in 1..Len(rDrawn) : i < j => DrawnBefore(rDrawn[i], rDrawn[j])
        /\ Range(rDrawn) \subseteq Range(rOrder)
        /\ rPc = "done" =>
              Range(rDrawn) = { r \in Range(rOrder) : ~rTimeline[r.ti].muted }

C9_Witness ==
    /\ rPc = "done"
    /\ Len(rDrawn) = 3
    /\ rTimeline[rDrawn[3].ti].type = "text"
    /\ rTimeline[rDrawn[2].ti].type # "text"
    /\ rDrawn[3].ti < rDrawn[2].ti
    /\ rDrawn[1].ti = rDrawn[2].ti

(***************************************************************************)
(* Properties of the frames handed to the encoder (checked under SpecKey). *)
(***************************************************************************)
\* C2 as claimed: frame k carries timestamp floor(k*1e6/fps) and duration
\* floor(1e6/fps), and the timestamps of successive frames strictly increase
\* (kFps is the frame rate in quarters).
C2_Original ==
    \A i \in 1..Len(kStamps) :
        /\ kStamps[i].timestamp = (4 * (i - 1) * MicrosPerSec) \div kFps
        /\ kStamps[i].duration = (4 * MicrosPerSec) \div kFps
        /\ i > 1 => kStamps[i - 1].timestamp < kStamps[i].timestamp

\* C18 as claimed: frame 0 is a forced keyframe and, for every accepted frame
\* rate, no encoded frame lies 3*fps frames or more behind the last forced
\* keyframe (consecutive forced keyframes are at most 3*fps frames apart).
C18_Original ==
    kFrame > 0 =>
        /\ kLastKey >= 0
        /\ 4 * ((kFrame - 1) - kLastKey) < 3 * kFps

(***************************************************************************)
(* Properties of the audio mixer (checked under SpecAudio).                *)
(***************************************************************************)
InFullScale(v) == 0 - FullScale <= v /\ v <= FullScale

\* every sample value of the decoded sources
SourceSamples ==
    UNION { Range(SourceData(src)[c]) : <<src, c>> \in {<<1, 1>>, <<2, 1>>, <<2, 2>>} }

\* the elements of audioTracks in mixing order, and those already passed
AudioOrder == VisitOrder(audioTracks(aTracks), 1, 1)

AudioElement(n) == ElementAt(audioTracks(aTracks), AudioOrder[n])

\* element n is handed to mixAudioElement: its track is not muted and it bears audio
IsMixed(n) ==
    /\ ~audioTracks(aTracks)[AudioOrder[n].ti].muted
    /\ IsAudioBearing(AudioElement(n))

\* L = sourceLen - trimStartS - trimEndS
MixedLength(el) ==
    Len(SourceData(el.src)[1]) - FloorSamples(el.trimStart) - FloorSamples(el.trimEnd)

\* el adds a source sample to sample k (counted from 1) of output channel c:
\* c <= min(srcCh, outCh) and k - 1 = offset + i for some i in [0, L)
Contributes(el, c, k) ==
    /\ Decodes(el.src)
    /\ c <= Len(SourceData(el.src))
    /\ c <= aChannels
    /\ k - 1 - FloorSamples(el.startTime) >= 0
    /\ k - 1 - FloorSamples(el.startTime) < MixedLength(el)

\* src[c][trimStartS + i], i = k - 1 - offset
ContributionOf(el, c, k) ==
    SourceData(el.src)[c][FloorSamples(el.trimStart) + (k - 1 - FloorSamples(el.startTime)) + 1]

\* C19: every sample of the mixed buffer lies in [-1, 1] in every state, and a
\* single addition of any source sample to a sample in [-1, 1] leaves it there.
C19_MixClamp ==
    /\ \A c \in 1..Len(aOut) : \A k \in 1..Len(aOut[c]) : InFullScale(aOut[c][k])
    /\ \A v \in (0 - FullScale)..FullScale : \A x \in SourceSamples :
          InFullScale(ClampSample(v + x))

\* two mixed elements whose samples add up beyond 1.0 at one place and beyond
\* -1.0 at another
C19_Witness ==
    /\ aPc = "done"
    /\ Len(AudioOrder) = 2
    /\ IsMixed(1) /\ IsMixed(2)
    /\ \E c \in 1..aChannels : \E k \in 1..Len(aOut[c]) :
          /\ Contributes(AudioElement(1), c, k) /\ Contributes(AudioElement(2), c, k)
          /\ ContributionOf(AudioElement(1), c, k) + ContributionOf(AudioElement(2), c, k)
                > FullScale
          /\ aOut[c][k] = FullScale
    /\ \E c \in 1..aChannels : \E k \in 1..Len(aOut[c]) :
          /\ Contributes(AudioElement(1), c, k) /\ Contributes(AudioElement(2), c, k)
          /\ ContributionOf(AudioElement(1), c, k) + ContributionOf(AudioElement(2), c, k)
                < 0 - FullScale
          /\ aOut[c][k] = 0 - FullScale

\* C20: the step that mixes an element (track not muted, audio-bearing, source
\* decoded) replaces out[c][offset+i] by the clamped sum with src[c][trimStartS+i]
\* for exactly the i in [0, L) with offset+i < outputLen and the c below
\* min(srcCh, outCh), and leaves every other sample, and the size of the buffer,
\* as they were; a step over any other element changes nothing.
C20_MixOffsets ==
    [][aNext' = aNext + 1 =>
          /\ Len(aOut') = Len(aOut)
          /\ \A c \in 1..Len(aOut) :
                /\ Len(aOut'[c]) = Len(aOut[c])
                /\ \A k \in 1..Len(aOut[c]) :
                      aOut'[c][k] =
                          IF IsMixed(aNext) /\ Contributes(AudioElement(aNext), c, k)
                          THEN ClampSample(aOut[c][k]
                                           + ContributionOf(AudioElement(aNext), c, k))
                          ELSE aOut[c][k]]_vars

\* an untrimmed element mixed in full, then a trimmed and delayed one on top of it
C20_Witness ==
    /\ aPc = "done"
    /\ Len(AudioOrder) = 2
    /\ IsMixed(1) /\ IsMixed(2)
    /\ AudioElement(1).trimStart = 0 /\ AudioElement(1).trimEnd = 0
    /\ MixedLength(AudioElement(1)) = Len(SourceData(AudioElement(1).src)[1])
    /\ AudioElement(2).trimStart > 0 /\ AudioElement(2).startTime > 0
    /\ \E k \in 1..Len(aOut[1]) :
          /\ Contributes(AudioElement(1), 1, k) /\ Contributes(AudioElement(2), 1, k)
          /\ aOut[1][k] = ClampSample(ContributionOf(AudioElement(1), 1, k)
                                       + ContributionOf(AudioElement(2), 1, k))
    /\ \E k \in 1..Len(aOut[1]) :
          /\ Contributes(AudioElement(1), 1, k) /\ ~Contributes(AudioElement(2), 1, k)
          /\ aOut[1][k] = ClampSample(ContributionOf(AudioElement(1), 1, k))

(***************************************************************************)
(* Properties of the render pipeline (checked under SpecPipeline).         *)
(***************************************************************************)
\* the frame handed on after processor i: to processor i + 1, or to the caller
HandedOn(i) == IF i < Len(handed) THEN handed[i + 1] ELSE currentFrame

\* C13 as claimed: a processor that throws is skipped with the surface
\* unchanged: what is handed on after it equals what it received; every
\* processor of the list is run, in list order; and renderFrame returns a frame.
C13_Original ==
    /\ Len(handed) = plPos - 1
    /\ Len(failed) = Len(handed)
    /\ plPc = "returned" => Len(handed) = Len(processors)
    /\ \A i \in 1..Len(handed) : failed[i] => HandedOn(i) = handed[i]

(***************************************************************************)
(* Properties of the frame loop with its renderer (checked under           *)
(* SpecFrames).                                                            *)
(***************************************************************************)
IsUnmuted(r) == ~rTimeline[r.ti].muted

\* C11: in every frame the elements dispatched are the unmuted ones among the
\* active elements passed so far, in render order, whichever of them failed in
\* this frame or in an earlier one; an element that failed earlier and is active
\* again is dispatched again; and the frame loop goes on: every frame is
\* composed by renderFrame (never replaced by the fallback surface), the frames
\* before the current one have all been encoded, and no run ends for a failed
\* element.
C11_Containment ==
    /\ rPc \in {"elements", "done"} =>
          /\ Range(rOrder) =
                { r \in AllElements : InActiveInterval(ElementAt(rTimeline, r), rTime) }
          /\ rDrawn = SelectSeq(SubSeq(rOrder, 1, rNext - 1), IsUnmuted)
          /\ rFailed \subseteq Range(rDrawn)
    /\ rPc = "done" =>
          \A r \in rFailedBefore :
              (IsUnmuted(r) /\ InActiveInterval(ElementAt(rTimeline, r), rTime))
                  => r \in Range(rDrawn)
    /\ canvas # "fallback"
    /\ pc \in {"loop", "wait", "rendering"} => Len(submitted) = frame
    /\ LoopDone => Len(submitted) = totalFrames + 1
    /\ pc = "error" => failure \in {"config", "encoder", "aborted", "save"}

\* the lower element failed in both frames, the upper one was drawn after it in
\* the second frame, and the run has completed with both frames encoded
C11_Witness ==
    /\ pc = "complete"
    /\ Len(submitted) = 2
    /\ rFrame = 1
    /\ Len(rDrawn) = 2
    /\ rDrawn[1] \in rFailedBefore
    /\ rDrawn[1] \in rFailed
    /\ rDrawn[2] \notin rFailed

\* C12 as claimed: after each element and at the end of every frame the save
\* depth, the transform, the global alpha and the blend mode are what they were
\* before the element was rendered, which for a surface that starts clean is
\* the clean state.
C12_Original == rPc \in {"elements", "done"} => context = NewContext

\* C14 as claimed: when a run has reached a terminal state no media cache entry
\* remains.
C14_Original == pc \in {"complete", "error"} => mediaCache = {}

(***************************************************************************)
(* Properties of muted tracks (checked under SpecMute).                    *)
(***************************************************************************)
\* the buffer after the first n elements of the mixing order, the elements of
\* muted tracks and the elements without audio left out
RECURSIVE MixOfUnmuted(_)
MixOfUnmuted(n) ==
    IF n = 0 THEN [c \in 1..aChannels |-> [j \in 1..BufferLength(aDuration) |-> 0]]
    ELSE IF IsMixed(n) THEN mixAudioElement(MixOfUnmuted(n - 1), AudioElement(n))
    ELSE MixOfUnmuted(n - 1)

\* C21: no element handed to an element renderer belongs to a muted track, and
\* the mixed buffer is at every point the mix of the elements of the tracks that
\* are not muted: an element of a muted track has added no sample.
C21_MutedSilent ==
    /\ \A i \in 1..Len(rDrawn) : ~rTimeline[rDrawn[i].ti].muted
    /\ aOut # <<>> => aOut = MixOfUnmuted(aNext - 1)
    /\ (aPc # "idle" /\ aOut = <<>>) => audioTracks(aTracks) = <<>>

\* the frame is finished and the mix is encoded; the muted track holds an
\* element that is active at the frame and would have added samples, the other
\* track was drawn and mixed
C21_Witness ==
    /\ rPc = "done" /\ aPc = "done"
    /\ \E m \in 1..2 :
          /\ rTimeline[m].muted /\ ~rTimeline[3 - m].muted
          /\ [ti |-> m, ei |-> 1] \in Range(rActive)
          /\ IsAudioBearing(aTracks[m].elements[1])
          /\ Contributes(aTracks[m].elements[1], 1, 1)
          /\ rDrawn = <<[ti |-> 3 - m, ei |-> 1]>>
          /\ IsAudioBearing(aTracks[3 - m].elements[1])
          /\ \E k \in 1..Len(aOut[1]) : aOut[1][k] # 0

(***************************************************************************)
(* Properties of exportTimeline (checked under SpecExport).                *)
(***************************************************************************)
\* the transformed timeline of the call at hand
ExportedTracks == transform(xTracks, xProject).tracks

ExportedElements ==
    { ElementAt(ExportedTracks, VisitOrder(ExportedTracks, 1, 1)[i]) :
        i \in 1..Len(VisitOrder(ExportedTracks, 1, 1)) }

\* a negative startTime, trimStart or trimEnd, or an active interval of length <= 0
IsIllTimed(element) ==
    \/ element.startTime < 0
    \/ element.trimStart < 0
    \/ element.trimEnd < 0
    \/ element.trimStart + element.trimEnd >= element.duration

\* C22 as claimed: once the validation has run on a timeline holding an element
\* with a negative startTime, trimStart or trimEnd, or with trimStart + trimEnd >=
\* duration, it has reported an error, and the engine is never started on it.
C22_Original ==
    (xPc # "idle" /\ \E element \in ExportedElements : IsIllTimed(element))
        => (xErrors # {} /\ xPc = "failed" /\ pc = "idle" /\ rPc = "idle")

\* nothing of the frame loop or of the output has happened
NothingProduced ==
    /\ frame = 0
    /\ submitted = <<>>
    /\ encodedChunks = 0
    /\ encState = "none"
    /\ rPc = "idle"
    /\ rDrawn = <<>>
    /\ mediaCache = {}
    /\ aPc = "idle"
    /\ muxer = "none"
    /\ saved = 0

\* a structural problem of the timeline handed to exportTimeline: no track, no
\* element, no length, no frame size, or a track or element without identity,
\* start, length, source or content
HasStructuralProblem ==
    \/ Len(ExportedTracks) = 0
    \/ ExportedElements = {}
    \/ calculateTotalDuration(ExportedTracks) <= 0
    \/ xProject.width = 0 \/ xProject.height = 0
    \/ \E ti \in 1..Len(ExportedTracks) :
          ExportedTracks[ti].id = 0 \/ ExportedTracks[ti].name = ""
    \/ \E element \in ExportedElements :
          \/ element.id = 0 \/ element.startTime < 0 \/ element.duration <= 0
          \/ element.type = "media" /\ (element.mediaId = 0 \/ ~element.hasSource)
          \/ element.type = "text" /\ element.content = ""

\* C23: a timeline with validation errors makes exportTimeline fail without an
\* engine being started, and a run whose encoder configuration is not found
\* ends in error; in both cases no frame has been rendered or encoded, no
\* encoder or output exists and saveBuffer has not been called.  Every
\* structural problem of the timeline is a validation error.
C23_FatalBeforeLoop ==
    /\ xPc # "idle" => (xPc = "failed" <=> xErrors # {})
    /\ (xPc # "idle" /\ HasStructuralProblem) => xPc = "failed"
    /\ xPc = "failed" => (pc = "idle" /\ progress = <<>> /\ NothingProduced)
    /\ failure = "config" => (pc = "error" /\ terminal = <<"error">> /\ NothingProduced)

\* the validation has rejected a timeline for one of its elements
C23_Witness ==
    /\ xPc = "failed"
    /\ "element" \in xErrors
    /\ Len(xTracks) = 2

\* C24 as claimed: when the timeline of a run has no audio-bearing element the
\* output has no audio track and processAudio encodes nothing.
C24_Original ==
    (xPc = "engine" /\ ~\E element \in ExportedElements : IsAudioBearing(element))
        => (~hasAudio /\ aPc \in {"idle"})

(***************************************************************************)
(* Properties of the media cache over the frames of a run (checked under   *)
(* SpecFrames).                                                            *)
(***************************************************************************)
\* C25 as claimed: once a load of a media id has failed, no load of that media
\* id is attempted at a later frame, and the failed load does not make the
\* export fail: a run with a failed load fails only by its encoder, an abort or
\* the save.
C25_Original ==
    /\ \A i, j \in 1..Len(loadCalls) :
          (~loadCalls[i].ok /\ loadCalls[j].id = loadCalls[i].id)
              => loadCalls[j].frame <= loadCalls[i].frame
    /\ (\E i \in 1..Len(loadCalls) : ~loadCalls[i].ok)
          => failure \in {"none", "encoder", "aborted", "save"}

\* C30 as claimed: over the whole run at most one video element is created for
\* each media id.
C30_Original ==
    \A i, j \in 1..Len(loadCalls) :
        (loadCalls[i].kind = "video" /\ loadCalls[j].kind = "video"
            /\ loadCalls[i].id = loadCalls[j].id) => i = j

(***************************************************************************)
(* Properties of MediaElementRenderer.render (checked under SpecMedia).    *)
(***************************************************************************)
\* C26 as claimed: a video frame is drawn without a seek only when the decoder
\* stood less than one output-frame period (1 / fps) from the requested
\* element-local time; at a difference of 1 / fps or more the renderer seeks.
C26_Original ==
    (mLast.drawn /\ mElement.mediaType = "video")
        => (~FLess(mLast.timeDiff, FDiv(1, mSettings.fps)) => mLast.sought)

\* C27 as claimed: whatever the resolution, the rectangle a media element is
\* drawn onto, in device pixels, is the whole canvas (0, 0, W_eff, H_eff).
C27_Original ==
    mLast.drawn => mLast.rect = <<CanvasRect(mSettings)>>

\* the run at hand is scenario S2
IsS2 == mSettings = S2Settings /\ mElement = S2Element

\* the pixels [220..420) x [130..230), in sixteenths of a pixel
S2CentredRect == [x |-> 16 * 220, y |-> 16 * 130, w16 |-> 16 * 200, h16 |-> 16 * 100]

\* C28 as claimed: in scenario S2 61 frames are produced, and in each of them
\* the image is drawn onto the pixels [220..420) x [130..230).
C28_Original ==
    IsS2 => /\ mPc = "done" => mIndex - 1 = 61
            /\ mLast.index >= 1 => (mLast.drawn /\ mLast.rect = <<S2CentredRect>>)

\* C28, amended: in scenario S2 (resolution 1) 61 frames are produced; in the
\* frames k = 0..59 the image is drawn stretched over the whole canvas, the
\* pixels [0..640) x [0..360); in frame 60, at t = 2.0, the excluded end of the
\* active interval, the image is not drawn and the frame is background only.
C28_S2 ==
    IsS2 => /\ mPc = "done" => mIndex - 1 = 61
            /\ mLast.index \in 1..60 =>
                  /\ mLast.drawn
                  /\ mLast.timestamp * 30 = (mLast.index - 1) * UnitsPerSec
                  /\ mLast.rect = <<[x |-> 0, y |-> 0, w16 |-> 16 * 640, h16 |-> 16 * 360]>>
            /\ mLast.index > 60 =>
                  /\ mLast.index = 61
                  /\ mLast.timestamp = 2 * UnitsPerSec
                  /\ ~mLast.drawn
                  /\ mLast.rect = <<>>

\* scenario S2 has run to its end: 61 frames, the last one without the image
C28_Witness ==
    /\ IsS2
    /\ mPc = "done"
    /\ mIndex - 1 = 61
    /\ mLast.index = 61
    /\ ~mLast.drawn

\* C29 as claimed: the element of scenario S5 is rendered at t = 1.0 with source
\* time 2.0 and at t = 3.999 with source time 4.999, and whenever it is shown
\* the presented source time is t - startTime + trimStart.
C29_Original ==
    (mElement = S5Element /\ mLast.index >= 1) =>
        /\ mLast.timestamp = UnitsPerSec =>
              (mLast.drawn /\ mLast.presented = FDiv(2, 1))
        /\ mLast.timestamp = S5Times[3] =>
              (mLast.drawn /\ mLast.presented = FDiv(4999, 1000))
        /\ mLast.drawn => mLast.presented = mLast.elementTime

\* C29, amended: the element of scenario S5 is shown exactly at the times of its
\* active interval [1.0, 2.0): at t = 1.0 the decoder is seeked to source time
\* 2.0, at t = 3.999 the element is not rendered.  Whenever it is shown the
\* source time asked of the decoder is t - startTime + trimStart (up to the
\* rounding of the two operations, far less than a microsecond).  The presented
\* source time is the position the decoder reports: after a seek a position not
\* after the time asked for and less than MaxSeekLag + 1 microseconds before it,
\* and when the current frame is reused the decoder's current time, less than
\* 1/60 s from the time asked for.
C29_S5 ==
    (mElement = S5Element /\ mLast.index >= 1) =>
        /\ mLast.drawn <=> (mLast.timestamp >= UnitsPerSec /\ mLast.timestamp < 2 * UnitsPerSec)
        /\ mLast.timestamp = UnitsPerSec =>
              (mLast.drawn /\ mLast.sought /\ mLast.elementTime = FDiv(2, 1))
        /\ mLast.timestamp = S5Times[3] => ~mLast.drawn
        /\ mLast.drawn =>
              /\ FLess(FAbsSub(mLast.elementTime,
                                FDiv(mLast.timestamp - mElement.startTime
                                       + mElement.trimStart, UnitsPerSec)),
                        FDiv(1, MicrosPerSec))
              /\ mLast.sought =>
                    /\ ~FLess(mLast.elementTime, mLast.presented)
                    /\ FLess(FAbsSub(mLast.elementTime, mLast.presented),
                             FDiv(MaxSeekLag + 1, MicrosPerSec))
              /\ ~mLast.sought =>
                    FLess(FAbsSub(mLast.presented, mLast.elementTime), FDiv(1, 60))

\* render has been called at 1.0, 1.01 and 3.999: the decoder stands at source
\* time 2.0 and nothing was drawn at 3.999
C29_Witness ==
    /\ mElement = S5Element
    /\ mTimes = S5Times
    /\ mLast.index = 3
    /\ mLast.timestamp = S5Times[3]
    /\ ~mLast.drawn
    /\ mCurrentTime = FDiv(2, 1)

(***************************************************************************)
(* Properties of the phases of export() (checked under SpecExport).        *)
(***************************************************************************)
\* C31: audio is processed only after all N + 1 frames have been submitted and
\* the video encoder has been flushed and closed; the output is finalized only
\* after the audio, if any, has been encoded, and that happens once;
\* saveBuffer is called at most once and only after finalize; the stage
\* 'complete' is reported only after saveBuffer has returned.
C31_PhaseOrder ==
    /\ aPc # "idle" =>
          (Len(submitted) = totalFrames + 1 /\ queue = 0 /\ encState = "closed")
    /\ muxer = "finalized" =>
          /\ Len(submitted) = totalFrames + 1
          /\ encState = "closed"
          /\ aPc = IF hasAudio THEN "done" ELSE "idle"
    /\ saved <= 1
    /\ saved = 1 => muxer = "finalized"
    /\ \A i \in 1..Len(progress) :
          progress[i].stage = "complete" =>
              (i = Len(progress) /\ pc = "complete" /\ saved = 1)
    /\ pc = "complete" => (terminal = <<"complete">> /\ saved = 1)

\* a run with audio has completed
C31_Witness ==
    /\ pc = "complete"
    /\ hasAudio
    /\ aPc = "done"
    /\ saved = 1
    /\ Len(submitted) = totalFrames + 1
    /\ \E c \in 1..Len(aOut) : \E k \in 1..Len(aOut[c]) : aOut[c][k] # 0

(***************************************************************************)
(* Properties of the processor list of RenderPipeline (checked under       *)
(* SpecList).                                                              *)
(***************************************************************************)
\* the two lists hold the same processors the same number of times
IsPermutation(a, b) ==
    /\ Len(a) = Len(b)
    /\ \A p \in ProcessorSet :
          Cardinality({ i \in 1..Len(a) : a[i] = p }) = Cardinality({ i \in 1..Len(b) : b[i] = p })

\* C32: processFrame calls process on the processors of the list, each once, in
\* list order, and with an empty list returns the frame it was given;
\* addProcessor appends; removeProcessor(id) disposes of and deletes the first
\* processor with the id, the others keeping their order, and changes nothing
\* when there is none; reorderProcessor changes nothing for an unknown id or an
\* index outside the list, and otherwise permutes the list; setting a parameter
\* of an effect, at any time, leaves the list's processors and their order as
\* they are.
C32_ProcessorList ==
    /\ Len(called) = plPos - 1
    /\ \A i \in 1..Len(called) : called[i] = processors[i].id
    /\ plPc = "returned" => Len(called) = Len(processors)
    /\ (plPc = "returned" /\ processors = <<>>) =>
          (currentFrame = CanvasFrame /\ handed = <<>>)
    /\ plOp.op = "add" =>
          /\ Len(processors) = Len(plOp.before) + 1
          /\ SubSeq(processors, 1, Len(plOp.before)) = plOp.before
          /\ processors[Len(processors)].id = plOp.id
    /\ plOp.op = "remove" =>
          IF \A i \in 1..Len(plOp.before) : plOp.before[i].id # plOp.id
          THEN processors = plOp.before /\ plOp.disposed = <<>>
          ELSE \E k \in 1..Len(plOp.before) :
                  /\ plOp.before[k].id = plOp.id
                  /\ \A j \in 1..(k - 1) : plOp.before[j].id # plOp.id
                  /\ plOp.disposed = <<k>>
                  /\ Len(processors) = Len(plOp.before) - 1
                  /\ \A i \in 1..Len(processors) :
                        processors[i] = plOp.before[IF i < k THEN i ELSE i + 1]
    /\ plOp.op = "reorder" =>
          IF \/ \A i \in 1..Len(plOp.before) : plOp.before[i].id # plOp.id
             \/ plOp.index < 0
             \/ plOp.index >= Len(plOp.before)
          THEN processors = plOp.before
          ELSE IsPermutation(plOp.before, processors)
    /\ plOp.op = "parameter" =>
          /\ Len(processors) = Len(plOp.before)
          /\ \A i \in 1..Len(processors) :
                /\ processors[i].id = plOp.before[i].id
                /\ processors[i].kind = plOp.before[i].kind
                /\ (processors[i].id # plOp.id) => processors[i] = plOp.before[i]

\* the first of two processors with the same id has been removed from a list of
\* three, and the two left have processed a frame in their order
C32_Witness ==
    /\ plOp.op = "remove"
    /\ Len(plOp.before) = 3
    /\ plOp.before[1].id = plOp.before[3].id
    /\ plOp.before[2].id # plOp.id
    /\ plOp.disposed = <<1>>
    /\ plPc = "returned"
    /\ called = <<plOp.before[2].id, plOp.before[3].id>>

(***************************************************************************)
(* Further properties of the audio mixer (checked under SpecAudio).        *)
(***************************************************************************)
\* C33: once processAudio has allocated the buffer, and whatever is mixed into
\* it, the buffer has settings.numberOfChannels channels and each channel has
\* ceil(duration * sampleRate) samples: the least whole number of samples that
\* covers the duration.
C33_BufferLength ==
    (aPc # "idle" /\ audioTracks(aTracks) # <<>>) =>
        /\ Len(aOut) = aChannels
        /\ \A c \in 1..Len(aOut) :
              /\ Len(aOut[c]) * TicksPerSec >= aDuration * SampleRate
              /\ (Len(aOut[c]) - 1) * TicksPerSec < aDuration * SampleRate

\* a stereo buffer whose length is rounded up has received an element whose
\* source is longer than the buffer
C33_Witness ==
    /\ aPc = "done"
    /\ aChannels = 2
    /\ (aDuration * SampleRate) % TicksPerSec # 0
    /\ Len(AudioOrder) >= 1
    /\ IsMixed(1)
    /\ Decodes(AudioElement(1).src)
    /\ MixedLength(AudioElement(1)) > Len(aOut[1])
    /\ \E k \in 1..Len(aOut[1]) : aOut[1][k] # 0

(***************************************************************************)
(* Further properties of exportTimeline (checked under SpecExport).        *)
(***************************************************************************)
\* the project's canvas is outside 64..7680 x 64..4320
CanvasOutOfRange ==
    \/ xProject.width < 64 \/ xProject.width > 7680
    \/ xProject.height < 64 \/ xProject.height > 4320

\* C34 as claimed: once exportTimeline has validated a project whose canvas is
\* outside 64..7680 x 64..4320, it has reported a validation error and the
\* engine is never started on it.
C34_Original ==
    (xPc # "idle" /\ CanvasOutOfRange)
        => (xErrors # {} /\ xPc = "failed" /\ pc = "idle")

\* elementEnd of an element of the transformed timeline
ElementEnd(element) ==
    element.startTime + (element.duration - element.trimStart - element.trimEnd)

\* C35 as claimed: the duration transform computed is the greatest end of the
\* elements it retained, and 0 when it retained none.
C35_Original ==
    xPc # "idle" =>
        IF ExportedElements = {}
        THEN xDuration = 0
        ELSE /\ \A element \in ExportedElements : ElementEnd(element) <= xDuration
             /\ \E element \in ExportedElements : ElementEnd(element) = xDuration

\* C35 amended: the duration transform computed is the greater of 0 and the
\* greatest end of the elements it retained: it is never negative, no retained
\* element ends after it, and when it is positive a retained element ends at it.
C35_Duration ==
    xPc # "idle" =>
        /\ xDuration >= 0
        /\ \A element \in ExportedElements : ElementEnd(element) <= xDuration
        /\ xDuration > 0 => \E element \in ExportedElements : ElementEnd(element) = xDuration

\* transform has dropped an element that ended later than every element it
\* kept, and the trimmed end of an element it kept is the duration
C35_Witness ==
    /\ xPc # "idle"
    /\ xDuration = 2
    /\ \E element \in ExportedElements :
          /\ element.trimStart + element.trimEnd > 0
          /\ ElementEnd(element) = xDuration
    /\ \E ti \in 1..Len(xTracks) : \E ei \in 1..Len(xTracks[ti].elements) :
          /\ FindMediaItem(xTracks[ti].elements[ei].mediaId) = <<>>
          /\ xTracks[ti].elements[ei].type = "media"
          /\ ElementEnd(xTracks[ti].elements[ei]) > xDuration

\* the media id belongs to an item of the library that has a file or a url
HasByteSource(mediaId) ==
    \E i \in 1..Len(MediaItems) : MediaItems[i].id = mediaId /\ MediaItems[i].hasSource

\* the media elements handed to exportTimeline
InputMediaElements ==
    { e \in UNION { { xTracks[ti].elements[ei] : ei \in 1..Len(xTracks[ti].elements) } :
                      ti \in 1..Len(xTracks) } : e.type = "media" }

\* C36: every media element of the timeline the engine renders belongs to a media
\* item with a file or a url, and so does every load the renderer starts; a
\* timeline with a media element whose item has neither file nor url is rejected
\* by the validation before anything is rendered.
C36_ByteSource ==
    /\ xPc = "engine" =>
          \A ti \in 1..Len(rTimeline) : \A ei \in 1..Len(rTimeline[ti].elements) :
              rTimeline[ti].elements[ei].type = "media"
                  => HasByteSource(rTimeline[ti].elements[ei].mediaId)
    /\ \A i \in 1..Len(loadCalls) : HasByteSource(loadCalls[i].id)
    /\ (/\ xPc # "idle"
        /\ \E e \in InputMediaElements :
              \E i \in 1..Len(MediaItems) :
                  MediaItems[i].id = e.mediaId /\ ~MediaItems[i].hasSource)
          => (xPc = "failed" /\ "source" \in xErrors /\ rPc = "idle" /\ loadCalls = <<>>)

\* a timeline with a media element of an unknown media id has passed the
\* validation and a frame of it has been rendered from a loaded asset
C36_Witness ==
    /\ xPc = "engine"
    /\ \E e \in InputMediaElements :
          \A i \in 1..Len(MediaItems) : MediaItems[i].id # e.mediaId
    /\ loadCalls # <<>>
    /\ submitted # <<>>

(***************************************************************************)
(* Progress reporting of export() (checked under Spec).                    *)
(***************************************************************************)
\* C37: the step that encodes frame k dispatches one progress event of stage
\* 'processing' with currentFrame = k and totalFrames = N when k is a multiple of
\* 10 or k = N, and none otherwise; and every step that enters the stage
\* initializing, finalizing, complete or error dispatches one progress event of
\* that stage.
C37_Progress ==
    [][LET k == Len(submitted)
           last == progress'[Len(progress')]
           entered == CASE pc' = "starting" -> "initializing"
                        [] pc' = "finalize" -> "finalizing"
                        [] pc' = "complete" -> "complete"
                        [] pc' = "error" -> "error"
                        [] OTHER -> "none"
       IN /\ Len(submitted') = k + 1 =>
                IF k % 10 = 0 \/ k = totalFrames
                THEN /\ Len(progress') = Len(progress) + 1
                     /\ SubSeq(progress', 1, Len(progress)) = progress
                     /\ last.stage = "processing"
                     /\ last.currentFrame = k
                     /\ last.totalFrames = totalFrames
                ELSE progress' = progress
          /\ (pc' # pc /\ entered # "none") =>
                /\ Len(progress') = Len(progress) + 1
                /\ SubSeq(progress', 1, Len(progress)) = progress
                /\ last.stage = entered]_vars

\* the frames reported so far
ReportedFrames ==
    { progress[i].currentFrame :
        i \in { j \in 1..Len(progress) : progress[j].stage = "processing" } }

\* a run of more than 10 frames has completed and reported exactly every tenth
\* frame, the last being the final one; or a run of fewer than 10 frames has
\* completed and reported its first and its final frame only
C37_Witness ==
    /\ pc = "complete"
    /\ Len(submitted) = totalFrames + 1
    /\ totalFrames > 1
    /\ ReportedFrames = { k \in 0..totalFrames : k % 10 = 0 \/ k = totalFrames }
    /\ ReportedFrames # 0..totalFrames
    /\ progress[1].stage = "initializing"
    /\ progress[Len(progress)].stage = "complete"
    /\ progress[Len(progress) - 1].stage = "finalizing"

(***************************************************************************)
(* Termination of export() (checked under SpecTerm).                       *)
(***************************************************************************)
\* export() as the claim has it: with the encoder delivering and the loads and
\* seeks of renderFrame settling, every call reaches 'complete' or 'error'
C38_Original == (pc # "idle") ~> (pc \in {"complete", "error"})

\* C38: when, besides the encoder delivering and renderFrame settling, export()
\* is never left for ever in an await outside the frame loop (building the
\* configuration and opening the output, the audio, finalize, the save), every
\* call of export() reaches the stage 'complete' or 'error', whatever the
\* encoder and abort() do on the way.
C38_Terminates ==
    ([]<>(pc \notin {"starting", "audio", "finalize", "saving"}))
        => ((pc # "idle") ~> (pc \in {"complete", "error"}))

\* abort() was called while the driver was waiting for the encoder queue to
\* drain, and the run has ended with the abort error
C38_Witness ==
    /\ pc = "error"
    /\ abortPc = "wait"
    /\ failure = "aborted"
    /\ Len(submitted) > gpuBatchSize

(***************************************************************************)
(* Terminal notification of exportTimeline (checked under SpecExport).     *)
(***************************************************************************)
\* calls of options.onError and of options.onComplete so far: those of the
\* listeners registered for the engine's 'error' and 'complete' events, and
\* those of exportTimeline's own catch block
OnErrorCalls ==
    Len(SelectSeq(terminal, LAMBDA e : e = "error"))
        + Len(SelectSeq(xCalls, LAMBDA c : c = "onError"))

OnCompleteCalls == Len(SelectSeq(terminal, LAMBDA e : e = "complete"))

\* C39 as claimed: no callback is invoked twice and never both, and once
\* exportTimeline has returned or thrown exactly one of onComplete and onError
\* has been invoked, once.
C39_Original ==
    /\ OnErrorCalls + OnCompleteCalls <= 1
    /\ xPc \in {"failed", "returned", "thrown"} => OnErrorCalls + OnCompleteCalls = 1

(***************************************************************************)
(* The active interval in the audio mix (checked under SpecAudio).         *)
(***************************************************************************)
\* C40 as claimed, for an element with a non-empty active interval: the step
\* that mixes it changes an output sample only at an index (counted from 0) from
\* floor(startTime * rate) up to ceil((startTime + duration - trimStart -
\* trimEnd) * rate).
C40_Original ==
    [][(/\ aNext' = aNext + 1
        /\ AudioElement(aNext).trimStart + AudioElement(aNext).trimEnd
              < AudioElement(aNext).duration) =>
          LET el    == AudioElement(aNext)
              first == (el.startTime * SampleRate) \div TicksPerSec
              last  == ((el.startTime + el.duration - el.trimStart - el.trimEnd)
                            * SampleRate + TicksPerSec - 1) \div TicksPerSec
          IN \A c \in 1..Len(aOut) : \A k \in 1..Len(aOut[c]) :
                aOut'[c][k] # aOut[c][k] => (first <= k - 1 /\ k - 1 <= last)]_vars

====
